---- MODULE Spec2Model ----
(***************************************************************************)
(* Model of the ingestlib package of Apollo64 (scripts/ingest/ingestlib):  *)
(* the mission-data validator (validation.py), the records it reads        *)
(* (records.py), the GET parser it calls (time.py) and the dataset loader  *)
(* (loader.py).                                                            *)
(*                                                                         *)
(* Python values are represented as follows.                               *)
(*  - str: a TLA+ string; Optional[str] uses the sentinel None.            *)
(*  - Optional[int] / Optional[float]: a record [some, v].                 *)
(*  - a parsed JSON value (Any): a record [t, s, n, items] where t is the  *)
(*    Python type ("null", "bool", "num", "nan", "str", "list", "dict"),   *)
(*    s the text of a str, n the value of a number or bool, and items the  *)
(*    elements of a list or the <<key, value>> entries of a dict in        *)
(*    insertion order.                                                     *)
(*  - a GET text: the sequence of its characters.                          *)
(*  - a ValidationIssue: a record [level, category, message, context].     *)
(***************************************************************************)
EXTENDS Integers, Sequences, FiniteSets, TLC

VARIABLES md, disk, pc, result, read, calls, fs, loaded,
          arg, out, builder, log, markdown

vars == <<md, disk, pc, result, read, calls, fs, loaded,
          arg, out, builder, log, markdown>>

\* The argument and the returns of the calls of the time helpers.
timeVars == <<arg, out>>

\* The entries of a ProvenanceBuilder, the calls made on it and the table it
\* last emitted.
provVars == <<builder, log, markdown>>

(***************************************************************************)
(* Generic helpers                                                         *)
(***************************************************************************)
Range(s) == {s[i] : i \in 1..Len(s)}

RECURSIVE Flatten(_)
Flatten(ss) == IF ss = <<>> THEN <<>> ELSE Head(ss) \o Flatten(Tail(ss))

Count(s, P(_)) == Cardinality({i \in 1..Len(s) : P(s[i])})

SeqsUpTo(S, n) == UNION {[1..k -> S] : k \in 0..n}

None == "<None>"

Truthy(text) == text # None /\ text # ""

NoNum == [some |-> FALSE, v |-> 0]

Num(n) == [some |-> TRUE, v |-> n]

(***************************************************************************)
(* Parsed JSON values                                                      *)
(***************************************************************************)
JNull == [t |-> "null", s |-> "", n |-> 0, items |-> <<>>]

JStr(text) == [t |-> "str", s |-> text, n |-> 0, items |-> <<>>]

JNum(k) == [t |-> "num", s |-> "", n |-> k, items |-> <<>>]

JBool(k) == [t |-> "bool", s |-> "", n |-> k, items |-> <<>>]

JNaN == [t |-> "nan", s |-> "", n |-> 0, items |-> <<>>]

JList(elems) == [t |-> "list", s |-> "", n |-> 0, items |-> elems]

JDict(entries) == [t |-> "dict", s |-> "", n |-> 0, items |-> entries]

IsDict(j) == j.t = "dict"

IsList(j) == j.t = "list"

HasKey(j, key) == \E i \in 1..Len(j.items) : j.items[i][1] = key

\* dict.get(key): the value stored under key, None (JNull) when absent.
Get(j, key) ==
    IF HasKey(j, key)
    THEN j.items[CHOOSE i \in 1..Len(j.items) : j.items[i][1] = key][2]
    ELSE JNull

\* Python truthiness of a JSON value.
JTruthy(j) ==
    CASE j.t = "null" -> FALSE
      [] j.t = "bool" -> j.n # 0
      [] j.t = "num" -> j.n # 0
      [] j.t = "nan" -> TRUE
      [] j.t = "str" -> j.s # ""
      [] OTHER -> j.items # <<>>

\* type(value).__name__
TypeName(j) ==
    CASE j.t = "null" -> "NoneType"
      [] j.t = "bool" -> "bool"
      [] j.t = "num" -> "int"
      [] j.t = "nan" -> "float"
      [] j.t = "str" -> "str"
      [] j.t = "list" -> "list"
      [] OTHER -> "dict"

\* str(n) for the integers the bounded inputs hold.
IntText(k) ==
    CASE k = 0 -> "0" [] k = 1 -> "1" [] k = 2 -> "2" [] k = 3 -> "3"
      [] k = 4 -> "4" [] k = 5 -> "5" [] k = 6 -> "6" [] k = 7 -> "7"
      [] k = 8 -> "8" [] k = 9 -> "9" [] OTHER -> "<int>"

\* str(value) of a JSON value.
StrOf(j) ==
    CASE j.t = "str" -> j.s
      [] j.t = "num" -> IntText(j.n)
      [] j.t = "bool" -> IF j.n = 1 THEN "True" ELSE "False"
      [] j.t = "nan" -> "nan"
      [] j.t = "null" -> "None"
      [] OTHER -> "<repr>"

\* utils.clean_string: a stripped string, or None when blank.  The bounded
\* texts carry no surrounding whitespace except the all-blank text " ".
clean_string(j) ==
    CASE j.t = "null" -> None
      [] j.t = "str" -> IF j.s = "" \/ j.s = " " THEN None ELSE j.s
      [] OTHER -> StrOf(j)

(***************************************************************************)
(* ValidationIssue and its ordering                                        *)
(***************************************************************************)
ValidationIssue(level, category, message, context) ==
    [level |-> level, category |-> category, message |-> message,
     context |-> context]

\* The texts the validator uses as level, category and message, in Python's
\* str order (code point order).
TextOrder ==
    << "Audio bus ducking references unknown target",
       "Audio bus is missing an id",
       "Audio bus maxConcurrent should be positive",
       "Audio category is missing an id",
       "Audio category references unknown bus",
       "Audio cue cooldownSeconds should not be negative",
       "Audio cue is missing a source citation",
       "Audio cue is missing an id",
       "Audio cue lengthSeconds should be positive",
       "Audio cue must define at least one asset path",
       "Audio cue references unknown category",
       "Autopilot commands are not sorted by time",
       "Autopilot script file is missing",
       "Checklist control requirement missing controlId",
       "Checklist entry missing id",
       "Checklist references unknown crew role",
       "Checklist references unknown panel control",
       "Checklist references unknown phase",
       "Checklist step numbers are not sequential",
       "Checklist step references unknown panel",
       "Communications dataset must be a list or dict",
       "Communications entry must be an object",
       "Communications metadata must be an object",
       "Communications pass is missing an identifier",
       "Communications pass missing get_close",
       "Communications pass missing get_open",
       "Communications pass missing station name",
       "Communications window closes before it opens",
       "Communications windows are not sorted by GET",
       "Consumable entry must be an object",
       "Consumable numeric field is negative",
       "Consumable numeric field must be finite",
       "Consumables category must map to an object",
       "Consumables dataset must be an object",
       "DSN shift hours must be a list of numbers",
       "Duplicate audio bus id",
       "Duplicate audio category id",
       "Duplicate audio cue id",
       "Duplicate checklist id",
       "Duplicate communications pass identifier",
       "Duplicate control id within panel",
       "Duplicate panel id",
       "Duplicate tile id within workspace",
       "Duplicate workspace id",
       "Event window closes before it opens",
       "Failed to parse autopilot script JSON",
       "Invalid GET string for get_close",
       "Invalid GET string for get_open",
       "Invalid GET string in GET_delivery",
       "Invalid GET string in valid_until",
       "Invalid command time value",
       "Missing prerequisite reference",
       "Panel control missing id",
       "Panel entry is missing an id",
       "Unknown autopilot reference",
       "Unknown checklist reference",
       "Unknown failure classification",
       "Unknown failure reference",
       "Unknown panel control type",
       "Workspace preset missing id",
       "Workspace tile missing id",
       "audio", "autopilots", "checklists", "communications", "consumables",
       "error", "events", "failures", "pads", "ui_checklists", "ui_panels",
       "ui_workspaces", "warning" >>

TextRank(text) == CHOOSE i \in 1..Len(TextOrder) : TextOrder[i] = text

\* str.__lt__ on the validator's texts.
StrLt(a, b) == TextRank(a) < TextRank(b)

\* ValidationIssue.__lt__: tuple comparison of (level, category, message).
\* Mutant: __lt__ compares (category, level, message).
IssueLtCategoryFirst(a, b) ==
    IF a.category # b.category THEN StrLt(a.category, b.category)
    ELSE IF a.level # b.level THEN StrLt(a.level, b.level)
    ELSE IF a.message # b.message THEN StrLt(a.message, b.message)
    ELSE FALSE

IssueLt(a, b) ==
    IF a.level # b.level THEN StrLt(a.level, b.level)
    ELSE IF a.category # b.category THEN StrLt(a.category, b.category)
    ELSE IF a.message # b.message THEN StrLt(a.message, b.message)
    ELSE FALSE

\* The place list.sort() gives x among the already sorted s: after every
\* element that is not greater than x (the sort is stable).
RECURSIVE InsertIssue(_, _)
InsertIssue(s, x) ==
    IF s = <<>> THEN <<x>>
    ELSE IF IssueLt(x, Head(s)) THEN <<x>> \o s
    ELSE <<Head(s)>> \o InsertIssue(Tail(s), x)

\* issues.sort(): a stable sort that compares with __lt__ alone.
RECURSIVE SortIssues(_)
SortIssues(s) ==
    IF s = <<>> THEN <<>>
    ELSE InsertIssue(SortIssues(SubSeq(s, 1, Len(s) - 1)), s[Len(s)])

(***************************************************************************)
(* time.parse_get                                                          *)
(***************************************************************************)
Digits == {"0", "1", "2", "3", "4", "5", "6", "7", "8", "9"}

DigitVal(c) ==
    CASE c = "0" -> 0 [] c = "1" -> 1 [] c = "2" -> 2 [] c = "3" -> 3
      [] c = "4" -> 4 [] c = "5" -> 5 [] c = "6" -> 6 [] c = "7" -> 7
      [] c = "8" -> 8 [] OTHER -> 9

\* int(text) of a run of decimal digits.
RECURSIVE IntOfDigits(_)
IntOfDigits(cs) ==
    IF cs = <<>> THEN 0
    ELSE 10 * IntOfDigits(SubSeq(cs, 1, Len(cs) - 1)) + DigitVal(cs[Len(cs)])

AllDigits(cs) == \A i \in 1..Len(cs) : cs[i] \in Digits

\* str.strip() for the blank character the bounded texts use.
RECURSIVE Strip(_)
Strip(cs) ==
    IF cs = <<>> THEN <<>>
    ELSE IF Head(cs) = " " THEN Strip(Tail(cs))
    ELSE IF cs[Len(cs)] = " " THEN Strip(SubSeq(cs, 1, Len(cs) - 1))
    ELSE cs

\* The positions of character c in cs.
Places(cs, c) == {i \in 1..Len(cs) : cs[i] = c}

\* Mutant: the tens digit of a minutes or seconds field may be any digit.
MinSecFieldOfAnyDigits(cs) == Len(cs) \in {1, 2} /\ AllDigits(cs)

\* [0-5]?\d
MinSecField(cs) ==
    /\ Len(cs) \in {1, 2}
    /\ AllDigits(cs)
    /\ Len(cs) = 2 => DigitVal(cs[1]) <= 5

Pow10(k) == CASE k = 0 -> 1 [] k = 1 -> 10 [] k = 2 -> 100 [] OTHER -> 1000

\* _GET_PATTERN.match(trimmed): the groups of a match, or matched = FALSE.
\* The pattern is ^(\d+):([0-5]?\d):([0-5]?\d)(?:\.(\d{1,3}))?$.
GetPatternMatch(cs) ==
    LET colons == Places(cs, ":")
        dots == Places(cs, ".")
        c1 == CHOOSE i \in colons : \A j \in colons : i <= j
        c2 == CHOOSE i \in colons : \A j \in colons : j <= i
        dot == CHOOSE i \in dots : TRUE
        hours == SubSeq(cs, 1, c1 - 1)
        minutes == SubSeq(cs, c1 + 1, c2 - 1)
        last == IF dots = {} THEN Len(cs) ELSE dot - 1
        seconds == SubSeq(cs, c2 + 1, last)
        fraction == IF dots = {} THEN <<>> ELSE SubSeq(cs, dot + 1, Len(cs))
        shape == /\ Cardinality(colons) = 2
                 /\ Cardinality(dots) <= 1
                 /\ dots # {} => dot > c2
        ok == /\ shape
              /\ Len(hours) >= 1 /\ AllDigits(hours)
              /\ MinSecField(minutes)
              /\ MinSecField(seconds)
              /\ dots # {} => (Len(fraction) \in 1..3 /\ AllDigits(fraction))
    IN  IF ok
        THEN [matched |-> TRUE, hours |-> hours, minutes |-> minutes,
              seconds |-> seconds, fraction |-> fraction]
        ELSE [matched |-> FALSE, hours |-> <<>>, minutes |-> <<>>,
              seconds |-> <<>>, fraction |-> <<>>]

\* A float that holds a whole number of milliseconds, s + milli / 1000 with
\* milli in 0..999.  Every number the bounded inputs produce is below 2^53,
\* where float arithmetic on such values is exact.
Seconds(s, milli) == [s |-> s, milli |-> milli]

\* a < b on these floats.
SecLt(a, b) == a.s < b.s \/ (a.s = b.s /\ a.milli < b.milli)

GetNone == [kind |-> "none", s |-> 0, milli |-> 0]

GetRaise(exc) == [kind |-> exc, s |-> 0, milli |-> 0]

GetSeconds(s, milli) == [kind |-> "ok", s |-> s, milli |-> milli]

\* The seconds of a text that matches _GET_PATTERN, ValueError otherwise.
GetOfMatch(match) ==
    IF ~match.matched THEN GetRaise("ValueError")
    ELSE GetSeconds(
           IntOfDigits(match.hours) * 3600
               + IntOfDigits(match.minutes) * 60
               + IntOfDigits(match.seconds),
           IF match.fraction = <<>> THEN 0
           ELSE IntOfDigits(match.fraction) * Pow10(3 - Len(match.fraction)))

GetOfTrimmed(trimmed) ==
    IF trimmed = <<>> THEN GetNone ELSE GetOfMatch(GetPatternMatch(trimmed))

\* parse_get(value): kind "none" (returns None), "ok" (returns s + milli /
\* 1000 seconds), or the exception raised.  A GET text holds its characters in
\* items.
parse_get(value) ==
    CASE value.t = "null" -> GetNone
      [] value.t \in {"num", "bool"} -> GetSeconds(value.n, 0)
      [] value.t = "nan" -> GetRaise("ValueError")
      [] value.t = "str" -> GetOfTrimmed(Strip(value.items))
      [] OTHER -> GetRaise("TypeError")

\* A str whose characters matter (a GET text).
JGet(cs) == [t |-> "str", s |-> "", n |-> 0, items |-> cs]

(***************************************************************************)
(* validate_mission_data: events, checklists, autopilots, pads, failures   *)
(***************************************************************************)
\* MissionData.event_map(): its keys.
event_map(m) == {m.events[i].id : i \in 1..Len(m.events)}

\* MissionData.autopilot_map(): its keys.
autopilot_map(m) == {m.autopilots[i].id : i \in 1..Len(m.autopilots)}

\* MissionData.checklist_index(): its keys, in order of first appearance.
RECURSIVE FirstAppearances(_, _)
FirstAppearances(ids, seen) ==
    IF ids = <<>> THEN <<>>
    ELSE IF Head(ids) \in seen THEN FirstAppearances(Tail(ids), seen)
    ELSE <<Head(ids)>> \o FirstAppearances(Tail(ids), seen \cup {Head(ids)})

checklist_index_keys(m) ==
    FirstAppearances([i \in 1..Len(m.checklists) |-> m.checklists[i].checklist_id], {})

\* checklist_index()[checklist_id]: the entries of one checklist, in order.
ChecklistSteps(m, checklist_id) ==
    SelectSeq(m.checklists, LAMBDA entry : entry.checklist_id = checklist_id)

failure_ids(m) == {m.failures[i].id : i \in 1..Len(m.failures)}

\* _extract_failure_id(effect): the failure_id of a dict when it holds the
\* key, else the first truthy result among its values, in order.
RECURSIVE extract_failure_id(_)
RECURSIVE FirstCandidate(_)
FirstCandidate(entries) ==
    IF entries = <<>> THEN None
    ELSE LET candidate == extract_failure_id(Head(entries)[2])
         IN  IF Truthy(candidate) THEN candidate
             ELSE FirstCandidate(Tail(entries))

extract_failure_id(effect) ==
    IF IsDict(effect)
    THEN IF HasKey(effect, "failure_id")
         THEN LET value == Get(effect, "failure_id")
              IN  IF value.t # "null" THEN StrOf(value) ELSE None
         ELSE FirstCandidate(effect.items)
    ELSE None

\* Mutant: a window that closes when it opens is reported too.
WindowIssuesOfEmptyWindows(event) ==
    IF /\ event.get_open_seconds.some
       /\ event.get_close_seconds.some
       /\ ~SecLt(event.get_open_seconds.v, event.get_close_seconds.v)
    THEN << ValidationIssue("error", "events",
                "Event window closes before it opens",
                [event_id |-> event.id]) >>
    ELSE <<>>

WindowIssues(event) ==
    IF /\ event.get_open_seconds.some
       /\ event.get_close_seconds.some
       /\ SecLt(event.get_close_seconds.v, event.get_open_seconds.v)
    THEN << ValidationIssue("error", "events",
                "Event window closes before it opens",
                [event_id |-> event.id]) >>
    ELSE <<>>

\* Mutant: the loop runs over set(event.prerequisites), so a token named
\* twice is reported once.
PrerequisiteIssuesOncePerToken(m, event) ==
    LET missing == FirstAppearances(
            SelectSeq(event.prerequisites,
                      LAMBDA prereq : prereq \notin event_map(m)), {})
    IN  [i \in 1..Len(missing) |->
            ValidationIssue("error", "events", "Missing prerequisite reference",
                [event_id |-> event.id, missing |-> missing[i]])]

PrerequisiteIssues(m, event) ==
    LET missing == SelectSeq(event.prerequisites,
                             LAMBDA prereq : prereq \notin event_map(m))
    IN  [i \in 1..Len(missing) |->
            ValidationIssue("error", "events", "Missing prerequisite reference",
                [event_id |-> event.id, missing |-> missing[i]])]

AutopilotRefIssues(m, event) ==
    IF Truthy(event.autopilot_id) /\ event.autopilot_id \notin autopilot_map(m)
    THEN << ValidationIssue("error", "events", "Unknown autopilot reference",
                [event_id |-> event.id, autopilot_id |-> event.autopilot_id]) >>
    ELSE <<>>

ChecklistRefIssues(m, event) ==
    IF /\ Truthy(event.checklist_id)
       /\ event.checklist_id \notin Range(checklist_index_keys(m))
    THEN << ValidationIssue("error", "events", "Unknown checklist reference",
                [event_id |-> event.id, checklist_id |-> event.checklist_id]) >>
    ELSE <<>>

FailureRefIssues(m, event) ==
    LET referenced_failure == extract_failure_id(event.failure_effects)
    IN  IF Truthy(referenced_failure) /\ referenced_failure \notin failure_ids(m)
        THEN << ValidationIssue("error", "events", "Unknown failure reference",
                    [event_id |-> event.id, failure_id |-> referenced_failure]) >>
        ELSE <<>>

\* The body of the loop over mission_data.events.
EventIssues(m, event) ==
    WindowIssues(event) \o PrerequisiteIssues(m, event)
        \o AutopilotRefIssues(m, event) \o ChecklistRefIssues(m, event)
        \o FailureRefIssues(m, event)

EventsIssues(m) ==
    Flatten([i \in 1..Len(m.events) |-> EventIssues(m, m.events[i])])

\* sorted(numbers)
RECURSIVE InsertInt(_, _)
InsertInt(s, x) ==
    IF s = <<>> THEN <<x>>
    ELSE IF x < Head(s) THEN <<x>> \o s
    ELSE <<Head(s)>> \o InsertInt(Tail(s), x)

RECURSIVE SortedInts(_)
SortedInts(s) ==
    IF s = <<>> THEN <<>>
    ELSE InsertInt(SortedInts(SubSeq(s, 1, Len(s) - 1)), s[Len(s)])

\* One checklist: a warning at the first step number out of sequence.
ChecklistIssues(m, checklist_id) ==
    LET steps == ChecklistSteps(m, checklist_id)
        numbers == SortedInts([i \in 1..Len(steps) |-> steps[i].step_number])
        off == {i \in 1..Len(numbers) : numbers[i] # i}
        index == CHOOSE i \in off : \A j \in off : i <= j
    IN  IF off = {} THEN <<>>
        ELSE << ValidationIssue("warning", "checklists",
                    "Checklist step numbers are not sequential",
                    [checklist_id |-> checklist_id, expected |-> index,
                     found |-> numbers[index]]) >>

ChecklistsIssues(m) ==
    LET keys == checklist_index_keys(m)
    IN  Flatten([i \in 1..Len(keys) |-> ChecklistIssues(m, keys[i])])

\* float(text) for the texts the bounded scripts hold: FALSE when it raises.
FloatTextOk(text) == text \in {"0", "1", "2", "3"}

FloatTextValue(text) ==
    CASE text = "0" -> 0 [] text = "1" -> 1 [] text = "2" -> 2 [] OTHER -> 3

\* float(time_value): ok = FALSE when it raises TypeError or ValueError; a
\* NaN compares FALSE with everything.
FloatOf(j) ==
    CASE j.t \in {"num", "bool"} -> [ok |-> TRUE, nan |-> FALSE, v |-> j.n]
      [] j.t = "nan" -> [ok |-> TRUE, nan |-> TRUE, v |-> 0]
      [] j.t = "str" /\ FloatTextOk(j.s) ->
            [ok |-> TRUE, nan |-> FALSE, v |-> FloatTextValue(j.s)]
      [] OTHER -> [ok |-> FALSE, nan |-> FALSE, v |-> 0]

FloatLt(a, b) == ~a.nan /\ ~b.nan /\ a.v < b.v

\* The loop over a script's sequence: previous is <<>> (None) or <<float>>.
RECURSIVE SequenceIssues(_, _, _)
SequenceIssues(autopilot, entries, previous) ==
    IF entries = <<>> THEN <<>>
    ELSE
      LET entry == Head(entries)
          time_value == IF IsDict(entry) THEN Get(entry, "time") ELSE JNull
          numeric == FloatOf(time_value)
      IN  IF time_value.t = "null"
          THEN SequenceIssues(autopilot, Tail(entries), previous)
          ELSE IF ~numeric.ok
          THEN << ValidationIssue("error", "autopilots",
                      "Invalid command time value",
                      [autopilot_id |-> autopilot.id, command |-> entry]) >>
               \o SequenceIssues(autopilot, Tail(entries), previous)
          ELSE IF previous # <<>> /\ FloatLt(numeric, previous[1])
          THEN << ValidationIssue("warning", "autopilots",
                      "Autopilot commands are not sorted by time",
                      [autopilot_id |-> autopilot.id]) >>
          ELSE SequenceIssues(autopilot, Tail(entries), <<numeric>>)

\* AutopilotRecord.load_script() through utils.parse_json_field: a blank file
\* gives the default None, text that json.loads rejects raises ValueError.
load_script(autopilot, files) ==
    LET script == files[autopilot.script_path]
    IN  CASE script.file = "blank" -> [raised |-> FALSE, payload |-> JNull]
          [] script.file = "invalid" -> [raised |-> TRUE, payload |-> JNull]
          [] OTHER -> [raised |-> FALSE, payload |-> script.payload]

\* The body of the loop over mission_data.autopilots.  raised: the body
\* raises AttributeError at payload.get, outside the try block.
AutopilotIssues(autopilot, files) ==
    IF files[autopilot.script_path].file = "missing"
    THEN [raised |-> FALSE,
          issues |-> << ValidationIssue("error", "autopilots",
                           "Autopilot script file is missing",
                           [autopilot_id |-> autopilot.id,
                            path |-> autopilot.script_path]) >>]
    ELSE
      LET loaded_script == load_script(autopilot, files)
          payload == loaded_script.payload
          sequence == Get(payload, "sequence")
      IN  IF loaded_script.raised
          THEN [raised |-> FALSE,
                issues |-> << ValidationIssue("error", "autopilots",
                                 "Failed to parse autopilot script JSON",
                                 [autopilot_id |-> autopilot.id,
                                  error |-> "ValueError"]) >>]
          ELSE IF ~IsDict(payload)
          THEN [raised |-> TRUE, issues |-> <<>>]
          ELSE IF IsList(sequence)
          THEN [raised |-> FALSE,
                issues |-> SequenceIssues(autopilot, sequence.items, <<>>)]
          ELSE [raised |-> FALSE, issues |-> <<>>]

\* The loop over mission_data.autopilots: it ends at the first body that
\* raises.
RECURSIVE AutopilotsIssues(_, _)
AutopilotsIssues(autopilots, files) ==
    IF autopilots = <<>> THEN [raised |-> FALSE, issues |-> <<>>]
    ELSE LET first == AutopilotIssues(Head(autopilots), files)
             rest == AutopilotsIssues(Tail(autopilots), files)
         IN  IF first.raised THEN [raised |-> TRUE, issues |-> <<>>]
             ELSE [raised |-> rest.raised,
                   issues |-> IF rest.raised THEN <<>>
                              ELSE first.issues \o rest.issues]

PadGetIssues(pad, field_name, value, parsed) ==
    IF value.t = "null" \/ parsed.kind \in {"none", "ok"} THEN <<>>
    ELSE << ValidationIssue("error", "pads",
                IF field_name = "GET_delivery"
                THEN "Invalid GET string in GET_delivery"
                ELSE "Invalid GET string in valid_until",
                [pad_id |-> pad.id, value |-> value,
                 error |-> parsed.kind]) >>

PadFieldIssues(pad, field_name, value) ==
    PadGetIssues(pad, field_name, value, parse_get(value))

PadsIssues(m) ==
    Flatten([i \in 1..Len(m.pads) |->
        PadFieldIssues(m.pads[i], "GET_delivery", m.pads[i].delivery_get)
        \o PadFieldIssues(m.pads[i], "valid_until", m.pads[i].valid_until)])

ALLOWED_FAILURE_CLASSES == {"Recoverable", "Hard", "Technical"}

FailuresIssues(m) ==
    LET unknown == SelectSeq(m.failures,
            LAMBDA failure : failure.classification \notin ALLOWED_FAILURE_CLASSES)
    IN  [i \in 1..Len(unknown) |->
            ValidationIssue("warning", "failures", "Unknown failure classification",
                [failure_id |-> unknown[i].id,
                 classification |-> unknown[i].classification])]

(***************************************************************************)
(* _validate_communications_schedule and _validate_consumables_pack        *)
(***************************************************************************)
DictsOf(elems) == SelectSeq(elems, IsDict)

\* _normalize_communications_entries(raw): ok = FALSE stands for None.
normalize_communications_entries(raw) ==
    CASE raw.t = "null" -> [ok |-> TRUE, entries |-> <<>>]
      [] raw.t = "list" -> [ok |-> TRUE, entries |-> DictsOf(raw.items)]
      [] raw.t = "dict" ->
            IF IsList(Get(raw, "passes"))
            THEN [ok |-> TRUE, entries |-> DictsOf(Get(raw, "passes").items)]
            ELSE IF IsList(Get(raw, "schedule"))
            THEN [ok |-> TRUE, entries |-> DictsOf(Get(raw, "schedule").items)]
            ELSE IF IsList(Get(raw, "entries"))
            THEN [ok |-> TRUE, entries |-> DictsOf(Get(raw, "entries").items)]
            ELSE [ok |-> TRUE, entries |-> <<>>]
      [] OTHER -> [ok |-> FALSE, entries |-> <<>>]

\* _parse_get_field: the issues it appends and the seconds it returns
\* (seconds = <<>> stands for None).
GetFieldResult(value, field_name, entry_id, parsed) ==
    IF value.t = "null"
    THEN [seconds |-> <<>>,
          issues |-> << ValidationIssue("error", "communications",
                           IF field_name = "get_open"
                           THEN "Communications pass missing get_open"
                           ELSE "Communications pass missing get_close",
                           [pass_id |-> entry_id]) >>]
    ELSE IF parsed.kind \notin {"none", "ok"}
    THEN [seconds |-> <<>>,
          issues |-> << ValidationIssue("error", "communications",
                           IF field_name = "get_open"
                           THEN "Invalid GET string for get_open"
                           ELSE "Invalid GET string for get_close",
                           [pass_id |-> entry_id, value |-> value,
                            error |-> parsed.kind]) >>]
    ELSE [seconds |-> IF parsed.kind = "ok" THEN <<Seconds(parsed.s, parsed.milli)>>
                      ELSE <<>>,
          issues |-> <<>>]

parse_get_field(value, field_name, entry_id) ==
    GetFieldResult(value, field_name, entry_id, parse_get(value))

\* The checks of one entry once its identifier and its two GET fields are
\* read: the issues they append.
EntryIssues(entry, index, seen_ids, previous_open, entry_id, open, close) ==
    LET identifier ==
            IF Truthy(entry_id)
            THEN IF entry_id \in seen_ids
                 THEN << ValidationIssue("error", "communications",
                             "Duplicate communications pass identifier",
                             [pass_id |-> entry_id]) >>
                 ELSE <<>>
            ELSE << ValidationIssue("warning", "communications",
                        "Communications pass is missing an identifier",
                        [index |-> index]) >>
        window ==
            IF /\ open.seconds # <<>>
               /\ close.seconds # <<>>
               /\ SecLt(close.seconds[1], open.seconds[1])
            THEN << ValidationIssue("error", "communications",
                        "Communications window closes before it opens",
                        [pass_id |-> entry_id,
                         get_open |-> Get(entry, "get_open"),
                         get_close |-> Get(entry, "get_close")]) >>
            ELSE <<>>
        unsorted ==
            IF /\ open.seconds # <<>>
               /\ previous_open # <<>>
               /\ SecLt(open.seconds[1], previous_open[1])
            THEN << ValidationIssue("warning", "communications",
                        "Communications windows are not sorted by GET",
                        [pass_id |-> entry_id,
                         previous_open_seconds |-> previous_open[1],
                         current_open_seconds |-> open.seconds[1]]) >>
            ELSE <<>>
        station == clean_string(Get(entry, "station"))
        no_station ==
            IF ~Truthy(station)
            THEN << ValidationIssue("warning", "communications",
                        "Communications pass missing station name",
                        [pass_id |-> entry_id, index |-> index]) >>
            ELSE <<>>
    IN  identifier \o open.issues \o close.issues \o window \o unsorted
            \o no_station

\* previous_open after an entry.
NextPreviousOpen(previous_open, open) ==
    IF open.seconds # <<>> THEN open.seconds ELSE previous_open

EntryId(entry) ==
    clean_string(IF JTruthy(Get(entry, "id")) THEN Get(entry, "id")
                 ELSE Get(entry, "pass_id"))

\* The loop over the normalized entries; index counts from 0.
RECURSIVE CommunicationsLoop(_, _, _, _)
RECURSIVE CommunicationsRest(_, _, _, _, _)
CommunicationsRest(entries, index, seen_ids, entry_id, previous_open) ==
    CommunicationsLoop(Tail(entries), index + 1,
        IF Truthy(entry_id) THEN seen_ids \cup {entry_id} ELSE seen_ids,
        previous_open)

CommunicationsLoop(entries, index, seen_ids, previous_open) ==
    IF entries = <<>> THEN <<>>
    ELSE IF ~IsDict(Head(entries))
    THEN << ValidationIssue("error", "communications",
                "Communications entry must be an object",
                [index |-> index, type |-> TypeName(Head(entries))]) >>
         \o CommunicationsLoop(Tail(entries), index + 1, seen_ids, previous_open)
    ELSE EntryIssues(Head(entries), index, seen_ids, previous_open,
             EntryId(Head(entries)),
             parse_get_field(Get(Head(entries), "get_open"), "get_open",
                             EntryId(Head(entries))),
             parse_get_field(Get(Head(entries), "get_close"), "get_close",
                             EntryId(Head(entries))))
         \o CommunicationsRest(entries, index, seen_ids, EntryId(Head(entries)),
                NextPreviousOpen(previous_open,
                    parse_get_field(Get(Head(entries), "get_open"), "get_open",
                                    EntryId(Head(entries)))))

validate_communications_schedule(raw) ==
    LET normalized == normalize_communications_entries(raw)
    IN  IF ~normalized.ok
        THEN << ValidationIssue("error", "communications",
                    "Communications dataset must be a list or dict",
                    [type |-> TypeName(raw)]) >>
        ELSE CommunicationsLoop(normalized.entries, 0, {}, <<>>)

\* _looks_numeric_field(name) on the field names the bounded packs hold: the
\* names ending in _kg, _kw, _minutes, _mps, _ah or _pct, and "canisters".
looks_numeric_field(name) ==
    name \in {"reserve_kg", "load_kw", "margin_minutes", "delta_v_mps",
              "capacity_ah", "reserve_pct", "canisters"}

\* _is_finite_number(value); bool is an int in Python.
is_finite_number(j) == j.t \in {"num", "bool"}

ResourceFieldIssues(category, resource_id, entry) ==
    LET field_name == entry[1]
        value == entry[2]
    IN  IF ~looks_numeric_field(field_name) \/ value.t = "null" THEN <<>>
        ELSE IF ~is_finite_number(value)
        THEN << ValidationIssue("error", "consumables",
                    "Consumable numeric field must be finite",
                    [category |-> category, resource_id |-> resource_id,
                     field |-> field_name, value |-> value]) >>
        ELSE IF value.n < 0
        THEN << ValidationIssue("warning", "consumables",
                    "Consumable numeric field is negative",
                    [category |-> category, resource_id |-> resource_id,
                     field |-> field_name, value |-> value]) >>
        ELSE <<>>

ResourceIssues(category, entry) ==
    LET resource_id == entry[1]
        resource == entry[2]
    IN  IF ~IsDict(resource)
        THEN << ValidationIssue("error", "consumables",
                    "Consumable entry must be an object",
                    [category |-> category, resource_id |-> resource_id,
                     type |-> TypeName(resource)]) >>
        ELSE Flatten([i \in 1..Len(resource.items) |->
                ResourceFieldIssues(category, resource_id, resource.items[i])])

ConsumablesCategoryIssues(entry) ==
    LET category == entry[1]
        payload == entry[2]
        shift_hours == Get(payload, "dsn_shift_hours")
    IN  IF category \in {"power", "propellant", "life_support"}
        THEN IF ~IsDict(payload)
             THEN << ValidationIssue("error", "consumables",
                         "Consumables category must map to an object",
                         [category |-> category, type |-> TypeName(payload)]) >>
             ELSE Flatten([i \in 1..Len(payload.items) |->
                     ResourceIssues(category, payload.items[i])])
        ELSE IF category = "communications"
        THEN IF ~IsDict(payload)
             THEN << ValidationIssue("error", "consumables",
                         "Communications metadata must be an object",
                         [category |-> category, type |-> TypeName(payload)]) >>
             ELSE IF /\ shift_hours.t # "null"
                     /\ ~(/\ IsList(shift_hours)
                          /\ \A i \in 1..Len(shift_hours.items) :
                                is_finite_number(shift_hours.items[i]))
             THEN << ValidationIssue("error", "consumables",
                         "DSN shift hours must be a list of numbers",
                         [value |-> shift_hours]) >>
             ELSE <<>>
        ELSE <<>>

validate_consumables_pack(raw) ==
    IF raw.t = "null" THEN <<>>
    ELSE IF ~IsDict(raw)
    THEN << ValidationIssue("error", "consumables",
                "Consumables dataset must be an object",
                [type |-> TypeName(raw)]) >>
    ELSE Flatten([i \in 1..Len(raw.items) |->
            ConsumablesCategoryIssues(raw.items[i])])

(***************************************************************************)
(* _validate_ui_packs                                                      *)
(***************************************************************************)
UI_PHASES == {"Launch", "Translunar", "LunarOrbit", "Surface", "Transearth", "Entry"}

UI_ROLES == {"CDR", "CMP", "LMP", "Joint"}

UI_CONTROL_TYPES == {"toggle", "enum", "rotary", "momentary", "analog"}

\* UiPanel.control_map(): its keys (every control's id, the empty one too).
control_map(panel) == {panel.controls[i].id : i \in 1..Len(panel.controls)}

\* The loop over one accepted panel's controls.
RECURSIVE PanelControlsLoop(_, _, _)
PanelControlsLoop(panel, controls, seen_controls) ==
    IF controls = <<>> THEN <<>>
    ELSE
      LET control == Head(controls)
      IN  IF ~Truthy(control.id)
          THEN << ValidationIssue("error", "ui_panels", "Panel control missing id",
                      [panel_id |-> panel.id, control |-> control]) >>
               \o PanelControlsLoop(panel, Tail(controls), seen_controls)
          ELSE (IF control.id \in seen_controls
                THEN << ValidationIssue("error", "ui_panels",
                            "Duplicate control id within panel",
                            [panel_id |-> panel.id, control_id |-> control.id]) >>
                ELSE <<>>)
               \o (IF Truthy(control.type) /\ control.type \notin UI_CONTROL_TYPES
                   THEN << ValidationIssue("warning", "ui_panels",
                               "Unknown panel control type",
                               [panel_id |-> panel.id, control_id |-> control.id,
                                type |-> control.type]) >>
                   ELSE <<>>)
               \o PanelControlsLoop(panel, Tail(controls),
                                    seen_controls \cup {control.id})

\* The loop over panel_pack.panels.  panel_map: the panels accepted so far,
\* in order (their ids are the keys of panel_map and of control_maps).
RECURSIVE PanelsLoop(_, _)
PanelsLoop(panels, panel_map) ==
    IF panels = <<>> THEN [issues |-> <<>>, panel_map |-> panel_map]
    ELSE
      LET panel == Head(panels)
          known == {panel_map[i].id : i \in 1..Len(panel_map)}
          skipped == PanelsLoop(Tail(panels), panel_map)
          accepted == PanelsLoop(Tail(panels), Append(panel_map, panel))
      IN  IF ~Truthy(panel.id)
          THEN [issues |-> << ValidationIssue("error", "ui_panels",
                                  "Panel entry is missing an id",
                                  [panel |-> panel]) >> \o skipped.issues,
                panel_map |-> skipped.panel_map]
          ELSE IF panel.id \in known
          THEN [issues |-> << ValidationIssue("error", "ui_panels",
                                  "Duplicate panel id",
                                  [panel_id |-> panel.id]) >> \o skipped.issues,
                panel_map |-> skipped.panel_map]
          ELSE [issues |-> PanelControlsLoop(panel, panel.controls, {})
                            \o accepted.issues,
                panel_map |-> accepted.panel_map]

PanelPackResult(m) ==
    IF m.ui_panels.present THEN PanelsLoop(m.ui_panels.panels, <<>>)
    ELSE [issues |-> <<>>, panel_map |-> <<>>]

PanelMapKeys(panel_map) == {panel_map[i].id : i \in 1..Len(panel_map)}

\* control_maps.get(panel_id) if panel_id else {}: found = FALSE stands for
\* None; keys are the control ids of the accepted panel.
ControlMapFor(panel_map, panel_id) ==
    IF ~Truthy(panel_id) THEN [found |-> TRUE, keys |-> {}]
    ELSE IF panel_id \in PanelMapKeys(panel_map)
    THEN [found |-> TRUE,
          keys |-> control_map(
              panel_map[CHOOSE i \in 1..Len(panel_map) : panel_map[i].id = panel_id])]
    ELSE [found |-> FALSE, keys |-> {}]

RequirementIssues(checklist, step, map, requirement) ==
    IF ~Truthy(requirement.control_id)
    THEN << ValidationIssue("warning", "ui_checklists",
                "Checklist control requirement missing controlId",
                [checklist_id |-> checklist.id, step_id |-> step.id]) >>
    ELSE IF map.found /\ map.keys # {} /\ requirement.control_id \notin map.keys
    THEN << ValidationIssue("error", "ui_checklists",
                "Checklist references unknown panel control",
                [checklist_id |-> checklist.id, step_id |-> step.id,
                 panel_id |-> step.panel_id,
                 control_id |-> requirement.control_id]) >>
    ELSE <<>>

\* Mutant: the unknown-panel test lacks its "panel_id and" guard.
StepIssuesWithoutPanelIdGuard(panel_map, checklist, step) ==
    LET panel_id == step.panel_id
        map == ControlMapFor(panel_map, panel_id)
    IN  (IF panel_id \notin PanelMapKeys(panel_map)
         THEN << ValidationIssue("error", "ui_checklists",
                     "Checklist step references unknown panel",
                     [checklist_id |-> checklist.id, step_id |-> step.id,
                      panel_id |-> panel_id]) >>
         ELSE <<>>)
        \o Flatten([i \in 1..Len(step.controls) |->
                RequirementIssues(checklist, step, map, step.controls[i])])

StepIssues(panel_map, checklist, step) ==
    LET panel_id == step.panel_id
        map == ControlMapFor(panel_map, panel_id)
    IN  (IF Truthy(panel_id) /\ panel_id \notin PanelMapKeys(panel_map)
         THEN << ValidationIssue("error", "ui_checklists",
                     "Checklist step references unknown panel",
                     [checklist_id |-> checklist.id, step_id |-> step.id,
                      panel_id |-> panel_id]) >>
         ELSE <<>>)
        \o Flatten([i \in 1..Len(step.controls) |->
                RequirementIssues(checklist, step, map, step.controls[i])])

\* The loop over checklist_pack.checklists.
RECURSIVE UiChecklistsLoop(_, _, _)
UiChecklistsLoop(panel_map, checklists, seen_checklists) ==
    IF checklists = <<>> THEN <<>>
    ELSE
      LET checklist == Head(checklists)
      IN  IF ~Truthy(checklist.id)
          THEN << ValidationIssue("error", "ui_checklists",
                      "Checklist entry missing id", [checklist |-> checklist]) >>
               \o UiChecklistsLoop(panel_map, Tail(checklists), seen_checklists)
          ELSE (IF checklist.id \in seen_checklists
                THEN << ValidationIssue("error", "ui_checklists",
                            "Duplicate checklist id",
                            [checklist_id |-> checklist.id]) >>
                ELSE <<>>)
               \o (IF Truthy(checklist.phase) /\ checklist.phase \notin UI_PHASES
                   THEN << ValidationIssue("warning", "ui_checklists",
                               "Checklist references unknown phase",
                               [checklist_id |-> checklist.id,
                                phase |-> checklist.phase]) >>
                   ELSE <<>>)
               \o (IF Truthy(checklist.role) /\ checklist.role \notin UI_ROLES
                   THEN << ValidationIssue("warning", "ui_checklists",
                               "Checklist references unknown crew role",
                               [checklist_id |-> checklist.id,
                                role |-> checklist.role]) >>
                   ELSE <<>>)
               \o Flatten([i \in 1..Len(checklist.steps) |->
                       StepIssues(panel_map, checklist, checklist.steps[i])])
               \o UiChecklistsLoop(panel_map, Tail(checklists),
                                   seen_checklists \cup {checklist.id})

\* The loop over one accepted workspace's tiles.
RECURSIVE TilesLoop(_, _, _)
TilesLoop(workspace, tiles, seen_tiles) ==
    IF tiles = <<>> THEN <<>>
    ELSE
      LET tile == Head(tiles)
      IN  IF ~Truthy(tile.id)
          THEN << ValidationIssue("warning", "ui_workspaces",
                      "Workspace tile missing id",
                      [workspace_id |-> workspace.id, tile |-> tile]) >>
               \o TilesLoop(workspace, Tail(tiles), seen_tiles)
          ELSE (IF tile.id \in seen_tiles
                THEN << ValidationIssue("error", "ui_workspaces",
                            "Duplicate tile id within workspace",
                            [workspace_id |-> workspace.id, tile_id |-> tile.id]) >>
                ELSE <<>>)
               \o TilesLoop(workspace, Tail(tiles), seen_tiles \cup {tile.id})

\* The loop over workspace_pack.presets.
RECURSIVE WorkspacesLoop(_, _)
WorkspacesLoop(presets, seen_workspaces) ==
    IF presets = <<>> THEN <<>>
    ELSE
      LET workspace == Head(presets)
      IN  IF ~Truthy(workspace.id)
          THEN << ValidationIssue("error", "ui_workspaces",
                      "Workspace preset missing id", [workspace |-> workspace]) >>
               \o WorkspacesLoop(Tail(presets), seen_workspaces)
          ELSE IF workspace.id \in seen_workspaces
          THEN << ValidationIssue("error", "ui_workspaces",
                      "Duplicate workspace id", [workspace_id |-> workspace.id]) >>
               \o WorkspacesLoop(Tail(presets), seen_workspaces)
          ELSE TilesLoop(workspace, workspace.tiles, {})
               \o WorkspacesLoop(Tail(presets),
                                 seen_workspaces \cup {workspace.id})

validate_ui_packs(m) ==
    LET panels == PanelPackResult(m)
    IN  panels.issues
        \o (IF m.ui_checklists.present
            THEN UiChecklistsLoop(panels.panel_map, m.ui_checklists.checklists, {})
            ELSE <<>>)
        \o (IF m.ui_workspaces.present
            THEN WorkspacesLoop(m.ui_workspaces.presets, {})
            ELSE <<>>)

(***************************************************************************)
(* validate_mission_data: the audio cue pack                               *)
(***************************************************************************)
\* The first loop over audio_pack.buses.
RECURSIVE BusesLoop(_, _)
BusesLoop(buses, bus_ids) ==
    IF buses = <<>> THEN [issues |-> <<>>, bus_ids |-> bus_ids]
    ELSE
      LET bus == Head(buses)
          skipped == BusesLoop(Tail(buses), bus_ids)
          added == BusesLoop(Tail(buses), bus_ids \cup {bus.id})
      IN  IF ~Truthy(bus.id)
          THEN [issues |-> << ValidationIssue("error", "audio",
                                  "Audio bus is missing an id", [bus |-> bus]) >>
                            \o skipped.issues,
                bus_ids |-> skipped.bus_ids]
          ELSE [issues |->
                    (IF bus.id \in bus_ids
                     THEN << ValidationIssue("error", "audio",
                                 "Duplicate audio bus id", [bus_id |-> bus.id]) >>
                     ELSE <<>>)
                    \o (IF bus.max_concurrent.some /\ bus.max_concurrent.v <= 0
                        THEN << ValidationIssue("warning", "audio",
                                    "Audio bus maxConcurrent should be positive",
                                    [bus_id |-> bus.id,
                                     value |-> bus.max_concurrent.v]) >>
                        ELSE <<>>)
                    \o added.issues,
                bus_ids |-> added.bus_ids]

\* Mutant: the ducking rules are checked in the first loop, where only the
\* buses met so far are known.
DuckingIssuesAgainstEarlierBuses(buses, known_bus_ids) ==
    Flatten([i \in 1..Len(buses) |->
        LET bus == buses[i]
            earlier == {buses[k].id : k \in 1..i} \cap known_bus_ids
            dangling == SelectSeq(bus.ducking,
                LAMBDA rule : Truthy(rule.target) /\ rule.target \notin earlier)
        IN  [k \in 1..Len(dangling) |->
                ValidationIssue("error", "audio",
                    "Audio bus ducking references unknown target",
                    [bus_id |-> bus.id, target |-> dangling[k].target])]])

\* The second loop over audio_pack.buses: the ducking rules.
DuckingIssues(buses, known_bus_ids) ==
    Flatten([i \in 1..Len(buses) |->
        LET bus == buses[i]
            dangling == SelectSeq(bus.ducking,
                LAMBDA rule : Truthy(rule.target) /\ rule.target \notin known_bus_ids)
        IN  [k \in 1..Len(dangling) |->
                ValidationIssue("error", "audio",
                    "Audio bus ducking references unknown target",
                    [bus_id |-> bus.id, target |-> dangling[k].target])]])

\* The loop over audio_pack.categories.
RECURSIVE CategoriesLoop(_, _, _)
CategoriesLoop(categories, category_ids, known_bus_ids) ==
    IF categories = <<>> THEN [issues |-> <<>>, category_ids |-> category_ids]
    ELSE
      LET category == Head(categories)
          skipped == CategoriesLoop(Tail(categories), category_ids, known_bus_ids)
          added == CategoriesLoop(Tail(categories),
                                  category_ids \cup {category.id}, known_bus_ids)
      IN  IF ~Truthy(category.id)
          THEN [issues |-> << ValidationIssue("error", "audio",
                                  "Audio category is missing an id",
                                  [category |-> category]) >> \o skipped.issues,
                category_ids |-> skipped.category_ids]
          ELSE [issues |->
                    (IF category.id \in category_ids
                     THEN << ValidationIssue("error", "audio",
                                 "Duplicate audio category id",
                                 [category_id |-> category.id]) >>
                     ELSE <<>>)
                    \o (IF Truthy(category.bus) /\ category.bus \notin known_bus_ids
                        THEN << ValidationIssue("error", "audio",
                                    "Audio category references unknown bus",
                                    [category_id |-> category.id,
                                     bus |-> category.bus]) >>
                        ELSE <<>>)
                    \o added.issues,
                category_ids |-> added.category_ids]

\* The checks of one cue that has an id, after the duplicate check.
CueFieldIssues(cue, category_ids) ==
    (IF Truthy(cue.category) /\ cue.category \notin category_ids
     THEN << ValidationIssue("error", "audio",
                 "Audio cue references unknown category",
                 [cue_id |-> cue.id, category |-> cue.category]) >>
     ELSE <<>>)
    \o (IF cue.length_seconds.some /\ cue.length_seconds.v <= 0
        THEN << ValidationIssue("warning", "audio",
                    "Audio cue lengthSeconds should be positive",
                    [cue_id |-> cue.id, lengthSeconds |-> cue.length_seconds.v]) >>
        ELSE <<>>)
    \o (IF cue.cooldown_seconds.some /\ cue.cooldown_seconds.v < 0
        THEN << ValidationIssue("warning", "audio",
                    "Audio cue cooldownSeconds should not be negative",
                    [cue_id |-> cue.id,
                     cooldownSeconds |-> cue.cooldown_seconds.v]) >>
        ELSE <<>>)
    \o (IF cue.assets = {}
        THEN << ValidationIssue("error", "audio",
                    "Audio cue must define at least one asset path",
                    [cue_id |-> cue.id]) >>
        ELSE <<>>)
    \o (IF ~Truthy(cue.source)
        THEN << ValidationIssue("warning", "audio",
                    "Audio cue is missing a source citation",
                    [cue_id |-> cue.id]) >>
        ELSE <<>>)

\* The loop over audio_pack.cues.
RECURSIVE CuesLoop(_, _, _)
CuesLoop(cues, cue_ids, category_ids) ==
    IF cues = <<>> THEN <<>>
    ELSE
      LET cue == Head(cues)
      IN  IF ~Truthy(cue.id)
          THEN << ValidationIssue("error", "audio", "Audio cue is missing an id",
                      [cue |-> cue]) >>
               \o CuesLoop(Tail(cues), cue_ids, category_ids)
          ELSE (IF cue.id \in cue_ids
                THEN << ValidationIssue("error", "audio", "Duplicate audio cue id",
                            [cue_id |-> cue.id]) >>
                ELSE <<>>)
               \o CueFieldIssues(cue, category_ids)
               \o CuesLoop(Tail(cues), cue_ids \cup {cue.id}, category_ids)

AudioIssues(audio_pack) ==
    IF ~audio_pack.present THEN <<>>
    ELSE
      LET buses == BusesLoop(audio_pack.buses, {})
          known_bus_ids == buses.bus_ids
          categories == CategoriesLoop(audio_pack.categories, {}, known_bus_ids)
      IN  buses.issues
          \o DuckingIssues(audio_pack.buses, known_bus_ids)
          \o categories.issues
          \o CuesLoop(audio_pack.cues, {}, categories.category_ids)

(***************************************************************************)
(* validate_mission_data                                                   *)
(***************************************************************************)
\* The issues in the order the checks append them; raised when the loop over
\* the autopilots raises (nothing is returned then).
\* Mutant: the function returns right after reporting a communications
\* dataset that is neither a list nor a dict.
IssuesAroundStoppingAtCommunications(m, autopilots) ==
    IF autopilots.raised THEN [raised |-> TRUE, issues |-> <<>>]
    ELSE [raised |-> FALSE,
          issues |-> EventsIssues(m) \o ChecklistsIssues(m)
                     \o autopilots.issues \o PadsIssues(m)
                     \o FailuresIssues(m)
                     \o validate_communications_schedule(m.communications)
                     \o IF normalize_communications_entries(m.communications).ok
                        THEN validate_consumables_pack(m.consumables)
                             \o validate_ui_packs(m)
                             \o AudioIssues(m.audio_cues)
                        ELSE <<>>]

IssuesAround(m, autopilots) ==
    IF autopilots.raised THEN [raised |-> TRUE, issues |-> <<>>]
    ELSE [raised |-> FALSE,
          issues |-> EventsIssues(m) \o ChecklistsIssues(m)
                     \o autopilots.issues \o PadsIssues(m)
                     \o FailuresIssues(m)
                     \o validate_communications_schedule(m.communications)
                     \o validate_consumables_pack(m.consumables)
                     \o validate_ui_packs(m)
                     \o AudioIssues(m.audio_cues)]

CollectIssues(m, files) == IssuesAround(m, AutopilotsIssues(m.autopilots, files))

\* issues.sort() and return, when nothing was raised before.
SortCollected(collected) ==
    IF collected.raised THEN [raised |-> TRUE, issues |-> <<>>]
    ELSE [raised |-> FALSE, issues |-> SortIssues(collected.issues)]

\* validate_mission_data(mission_data), run while the autopilot script files
\* are as in files: the sorted issues it returns, or raised = TRUE with the
\* exception it raises.
validate_mission_data(m, files) == SortCollected(CollectIssues(m, files))

(***************************************************************************)
(* loader.load_mission_data                                                *)
(***************************************************************************)
\* The names loader.py imports from .records (loader.py lines 10-23).
LoaderImports ==
    {"AutopilotRecord", "AudioCuePack", "ChecklistEntry", "DockingGateConfig",
     "EventRecord", "FailureRecord", "MissionData", "PadRecord",
     "UiChecklistPack", "UiDskyMacroPack", "UiPanelPack", "UiWorkspacePack"}

\* The classes records.py defines.
RecordsExports ==
    {"EventRecord", "ChecklistEntry", "AutopilotRecord", "PadRecord",
     "FailureRecord", "AudioDuckingRule", "AudioBus", "AudioCategory",
     "AudioCue", "AudioCuePack", "UiChecklistControlRequirement",
     "UiChecklistStep", "UiChecklist", "UiChecklistPack",
     "UiPanelControlState", "UiPanelControl", "UiPanelAlert", "UiPanel",
     "UiPanelPack", "UiWorkspaceTile", "UiWorkspace", "UiWorkspacePack",
     "DockingGate", "DockingGateConfig", "MissionData"}

\* The fields of the MissionData dataclass.
MissionDataFields ==
    {"events", "checklists", "autopilots", "pads", "failures", "consumables",
     "communications", "thrusters", "audio_cues", "ui_checklists", "ui_panels",
     "ui_workspaces", "docking_gates"}

\* The keyword arguments load_mission_data passes to MissionData(...).
LoaderKeywords ==
    {"events", "checklists", "autopilots", "pads", "failures", "consumables",
     "communications", "thrusters", "audio_cues", "ui_checklists", "ui_panels",
     "ui_workspaces", "ui_dsky_macros", "docking_gates"}

\* _DATA_FILES, in the order load_mission_data reads them.
DATA_FILES ==
    << "events", "checklists", "autopilots", "pads", "failures", "consumables",
       "communications", "thrusters", "audio_cues" >>

\* _UI_FILES, in the order load_mission_data reads them.
UI_FILES ==
    << "ui_checklists", "ui_panels", "ui_workspaces", "ui_dsky_macros",
       "docking_gates" >>

\* What reading one required file does: "ok", or the exception it raises.
ReadRequired(state) ==
    CASE state = "missing" -> "FileNotFoundError"
      [] state = "malformed" -> "ValueError"
      [] OTHER -> "ok"

\* An optional UI loader: "None" for a missing file or a payload that is no
\* object, "pack" for an object, or the exception json.load raises.
LoadOptional(state) ==
    CASE state = "missing" -> "None"
      [] state = "nonobject" -> "None"
      [] state = "malformed" -> "ValueError"
      [] OTHER -> "pack"

\* The first entry of outcomes that is an exception, "ok" when none is.
RECURSIVE FirstRaise(_)
FirstRaise(outcomes) ==
    IF outcomes = <<>> THEN "ok"
    ELSE IF Head(outcomes) \in {"ok", "None", "pack"} THEN FirstRaise(Tail(outcomes))
    ELSE Head(outcomes)

\* Importing ingestlib.loader, then calling load_mission_data on the files f:
\* status is "returned" or the exception raised; data holds the datasets of
\* the MissionData returned.
load_mission_data(f) ==
    LET reads == [i \in 1..Len(DATA_FILES) |-> ReadRequired(f[DATA_FILES[i]])]
                 \o [i \in 1..Len(UI_FILES) |-> LoadOptional(f[UI_FILES[i]])]
    IN  IF ~(LoaderImports \subseteq RecordsExports)
        THEN [status |-> "ImportError", data |-> {}]
        ELSE IF FirstRaise(reads) # "ok"
        THEN [status |-> FirstRaise(reads), data |-> {}]
        ELSE IF ~(LoaderKeywords \subseteq MissionDataFields)
        THEN [status |-> "TypeError", data |-> {}]
        ELSE [status |-> "returned", data |-> LoaderKeywords]

(***************************************************************************)
(* State machine                                                           *)
(***************************************************************************)
\* Calls of validate_mission_data on one MissionData.  disk is what the
\* autopilot script paths hold, read lists what it held at each call.
MaxCalls == 2

EmptyAudio == [present |-> TRUE, buses |-> <<>>, categories |-> <<>>, cues |-> <<>>]

\* A MissionData whose datasets are all empty and whose UI packs are None.
BaseMd ==
    [events |-> <<>>, checklists |-> <<>>, autopilots |-> <<>>, pads |-> <<>>,
     failures |-> <<>>, consumables |-> JDict(<<>>),
     communications |-> JDict(<<>>), thrusters |-> JDict(<<>>),
     audio_cues |-> EmptyAudio,
     ui_checklists |-> [present |-> FALSE, checklists |-> <<>>],
     ui_panels |-> [present |-> FALSE, panels |-> <<>>],
     ui_workspaces |-> [present |-> FALSE, presets |-> <<>>]]

AllFilesOk == [name \in Range(DATA_FILES) \cup Range(UI_FILES) |-> "ok"]

NotLoaded == [status |-> "none", data |-> {}]

\* Mutant: the failures check rewrites an unknown classification in place.
MissionDataWithClassificationsReset(m) ==
    [m EXCEPT !.failures =
        [i \in 1..Len(m.failures) |->
            [m.failures[i] EXCEPT !.classification =
                IF @ \in ALLOWED_FAILURE_CLASSES THEN @ ELSE "Technical"]]]

\* validate_mission_data writes to nothing reachable from its argument: the
\* maps and the index it builds are new dicts and lists, sorted() copies, and
\* issues is a local list.
MissionDataAfterValidate(m) == m

\* The caller's view of a call: the list returned, or the exception.
Finish(outcome) ==
    /\ pc' = IF outcome.raised THEN "raised" ELSE "returned"
    /\ result' = outcome.issues

\* What a call of validate_mission_data(md) does to the state.
Call ==
    /\ Finish(validate_mission_data(md, disk))
    /\ read' = Append(read, disk)
    /\ calls' = calls + 1
    /\ md' = MissionDataAfterValidate(md)
    /\ UNCHANGED <<disk, fs, loaded, timeVars, provVars>>

\* The first call of validate_mission_data on a MissionData.
Validate == pc = "ready" /\ Call

\* A further call on the same MissionData, after the previous one returned
\* or raised.
Revalidate == pc \in {"returned", "raised"} /\ calls < MaxCalls /\ Call

\* Something outside the program rewrites an autopilot script file between
\* two calls (at most once between two calls).
WriteScript(path, script) ==
    /\ pc \in {"returned", "raised"}
    /\ calls < MaxCalls
    /\ disk = read[Len(read)]
    /\ script # disk[path]
    /\ disk' = [disk EXCEPT ![path] = script]
    /\ UNCHANGED <<md, pc, result, read, calls, fs, loaded, timeVars, provVars>>

\* Importing the loader and calling load_mission_data on the files fs.
Load ==
    /\ pc = "start"
    /\ loaded' = load_mission_data(fs)
    /\ pc' = "loaded"
    /\ UNCHANGED <<md, disk, result, read, calls, fs, timeVars, provVars>>

InitValidate(m, files) ==
    /\ md = m
    /\ disk = files
    /\ pc = "ready"
    /\ result = <<>>
    /\ read = <<>>
    /\ calls = 0
    /\ arg = <<>>
    /\ out = <<>>
    /\ builder = <<>>
    /\ log = <<>>
    /\ markdown = <<>>
    /\ fs = AllFilesOk
    /\ loaded = NotLoaded

(***************************************************************************)
(* Inputs: events and the tables they refer to                             *)
(***************************************************************************)
MaxEvents == 2

MaxPrereqs == 2

Event(id, open, close, prerequisites, autopilot_id, checklist_id, failure_effects) ==
    [id |-> id, get_open_seconds |-> open, get_close_seconds |-> close,
     prerequisites |-> prerequisites, autopilot_id |-> autopilot_id,
     checklist_id |-> checklist_id, failure_effects |-> failure_effects]

Autopilot(id, script_path) == [id |-> id, script_path |-> script_path]

\* What a script path holds: file is "missing", "blank" (an empty file),
\* "invalid" (text json.loads rejects) or "json" with the value parsed.
Script(file, payload) == [file |-> file, payload |-> payload]

ScriptPaths == {"ap1.json"}

ScriptsOk == [path \in ScriptPaths |-> Script("json", JDict(<<>>))]

Checklist(checklist_id, step_number) ==
    [checklist_id |-> checklist_id, step_number |-> step_number]

Failure(id, classification) == [id |-> id, classification |-> classification]

EventIds == {"E1", "E2"}

PrereqTokens == {"E1", "E9"}

\* Events that differ in their id and in the references named.
EventsWith(prereqs, autopilot_ids, checklist_ids) ==
    {Event(id, NoNum, NoNum, p, a, c, JDict(<<>>)) :
        id \in EventIds, p \in prereqs, a \in autopilot_ids, c \in checklist_ids}

\* Events with every list of prerequisites, and no other reference.
PrereqInputs ==
    {[BaseMd EXCEPT !.events = es] :
        es \in SeqsUpTo(EventsWith(SeqsUpTo(PrereqTokens, MaxPrereqs),
                                   {None}, {""}), MaxEvents)}

\* Events with every combination of references, over the autopilot and
\* checklist tables that resolve them or not.
RefInputs ==
    {[BaseMd EXCEPT !.events = es, !.autopilots = aps, !.checklists = cls] :
        es \in SeqsUpTo(EventsWith({<<>>, <<"E9">>, <<"E1">>}, {None, "AP1"},
                                   {"", "CL1"}), MaxEvents),
        aps \in {<<>>, <<Autopilot("AP1", "ap1.json")>>},
        cls \in {<<>>, <<Checklist("CL1", 1)>>}}

InitEvents == \E m \in PrereqInputs \cup RefInputs : InitValidate(m, ScriptsOk)

SpecEvents == InitEvents /\ [][Validate]_vars

(***************************************************************************)
(* Reading the returned issues                                             *)
(***************************************************************************)
Returned == pc = "returned"

\* The number of returned issues with this message and this context.
Reported(message, context) ==
    Count(result, LAMBDA issue : issue.message = message /\ issue.context = context)

\* The number of returned issues with this message.
ReportedAny(message) == Count(result, LAMBDA issue : issue.message = message)

EventPlaces == 1..Len(md.events)

IsEventId(token) == \E k \in EventPlaces : md.events[k].id = token

IsAutopilotId(token) == \E k \in 1..Len(md.autopilots) : md.autopilots[k].id = token

IsChecklistId(token) ==
    \E k \in 1..Len(md.checklists) : md.checklists[k].checklist_id = token

\* The places <<event, position>> of the prerequisite tokens that name no event.
DanglingPrereqs ==
    {<<k, j>> \in EventPlaces \X (1..MaxPrereqs + 1) :
        /\ j <= Len(md.events[k].prerequisites)
        /\ ~IsEventId(md.events[k].prerequisites[j])}

DanglingAutopilots ==
    {k \in EventPlaces :
        /\ md.events[k].autopilot_id \notin {None, ""}
        /\ ~IsAutopilotId(md.events[k].autopilot_id)}

DanglingChecklists ==
    {k \in EventPlaces :
        /\ md.events[k].checklist_id \notin {None, ""}
        /\ ~IsChecklistId(md.events[k].checklist_id)}

\* C1: in the list validate_mission_data returns, every event has exactly one
\* 'Missing prerequisite reference' error per prerequisite token that is the
\* id of no event, one 'Unknown autopilot reference' error when its non-empty
\* autopilot_id is the id of no autopilot, one 'Unknown checklist reference'
\* error when its non-empty checklist_id is the checklist_id of no checklist
\* entry, and there are no other errors with these messages.
C1_ReferencesReported ==
    Returned =>
      /\ \A k \in EventPlaces :
            /\ \A j \in 1..Len(md.events[k].prerequisites) :
                  LET id == md.events[k].id
                      token == md.events[k].prerequisites[j]
                  IN  Reported("Missing prerequisite reference",
                               [event_id |-> id, missing |-> token])
                      = Cardinality({p \in DanglingPrereqs :
                            /\ md.events[p[1]].id = id
                            /\ md.events[p[1]].prerequisites[p[2]] = token})
            /\ LET id == md.events[k].id
                   autopilot_id == md.events[k].autopilot_id
                   checklist_id == md.events[k].checklist_id
               IN  /\ Reported("Unknown autopilot reference",
                               [event_id |-> id, autopilot_id |-> autopilot_id])
                      = Cardinality({p \in DanglingAutopilots :
                            /\ md.events[p].id = id
                            /\ md.events[p].autopilot_id = autopilot_id})
                   /\ Reported("Unknown checklist reference",
                               [event_id |-> id, checklist_id |-> checklist_id])
                      = Cardinality({p \in DanglingChecklists :
                            /\ md.events[p].id = id
                            /\ md.events[p].checklist_id = checklist_id})
      /\ ReportedAny("Missing prerequisite reference") = Cardinality(DanglingPrereqs)
      /\ ReportedAny("Unknown autopilot reference") = Cardinality(DanglingAutopilots)
      /\ ReportedAny("Unknown checklist reference") = Cardinality(DanglingChecklists)

\* A returned list for two events, one with a resolved and the other with a
\* dangling prerequisite, a dangling autopilot and a dangling checklist.
C1_Witness ==
    /\ Returned
    /\ \E k \in EventPlaces :
          /\ <<k, 1>> \in DanglingPrereqs
          /\ k \in DanglingAutopilots
          /\ k \in DanglingChecklists
    /\ \E k \in EventPlaces :
          /\ md.events[k].prerequisites # <<>>
          /\ <<k, 1>> \notin DanglingPrereqs
    /\ ReportedAny("Missing prerequisite reference") = 1


(***************************************************************************)
(* Inputs: failure_effects trees and the failures table                    *)
(***************************************************************************)
FailureIdValues == {JStr("F1"), JStr("F9"), JNull}

Effect(value) == JDict(<< <<"failure_id", value>> >>)

\* failure_effects with the failure_id at the top level, inside one nested
\* object, inside two nested objects, and at both levels.
FailureEffects ==
    {JDict(<<>>)}
        \cup {Effect(v) : v \in FailureIdValues}
        \cup {JDict(<< <<"a", Effect(v)>> >>) : v \in FailureIdValues}
        \cup {JDict(<< <<"a", Effect(v)>>, <<"b", Effect(w)>> >>) :
                v \in FailureIdValues, w \in FailureIdValues}
        \cup {JDict(<< <<"failure_id", v>>, <<"a", Effect(w)>> >>) :
                v \in FailureIdValues, w \in FailureIdValues}

FailureRefInputs ==
    {[BaseMd EXCEPT !.events = es, !.failures = fl] :
        es \in SeqsUpTo({Event(id, NoNum, NoNum, <<>>, None, "", effects) :
                            id \in EventIds, effects \in FailureEffects}, MaxEvents),
        fl \in {<<>>, <<Failure("F1", "Recoverable")>>}}

InitFailureRefs == \E m \in FailureRefInputs : InitValidate(m, ScriptsOk)

SpecFailureRefs == InitFailureRefs /\ [][Validate]_vars

\* Every string held under the key failure_id in a JSON object or in an
\* object nested in it.
RECURSIVE AllFailureIds(_)
AllFailureIds(j) ==
    IF IsDict(j)
    THEN UNION {IF j.items[i][1] = "failure_id" /\ j.items[i][2].t = "str"
                THEN {j.items[i][2].s}
                ELSE AllFailureIds(j.items[i][2]) : i \in 1..Len(j.items)}
    ELSE {}

IsFailureId(token) == \E k \in 1..Len(md.failures) : md.failures[k].id = token

UnknownFailureReported(event_id) ==
    \E i \in 1..Len(result) :
        /\ result[i].message = "Unknown failure reference"
        /\ result[i].context.event_id = event_id

\* C2: the returned list holds an 'Unknown failure reference' error for an
\* event when its failure_effects holds, at the top level or in a nested
\* object, a failure_id that is the id of no failure record, and holds none
\* for an event id all of whose failure_ids name failure records.
C2_UnknownFailureReported ==
    Returned =>
      \A id \in EventIds :
        LET mine == {k \in EventPlaces : md.events[k].id = id}
            dangling == {k \in mine :
                \E f \in AllFailureIds(md.events[k].failure_effects) :
                    ~IsFailureId(f)}
        IN  /\ dangling # {} => UnknownFailureReported(id)
            /\ dangling = {} => ~UnknownFailureReported(id)


(***************************************************************************)
(* Inputs: one MissionData with issues in every category                   *)
(***************************************************************************)
Pad(id, delivery_get, valid_until) ==
    [id |-> id, delivery_get |-> delivery_get, valid_until |-> valid_until]

Bus(id, max_concurrent, targets) ==
    [id |-> id, max_concurrent |-> max_concurrent,
     ducking |-> [i \in 1..Len(targets) |-> [target |-> targets[i]]]]

Category(id, bus) == [id |-> id, bus |-> bus]

Cue(id, category, length_seconds, cooldown_seconds, assets, source) ==
    [id |-> id, category |-> category, length_seconds |-> length_seconds,
     cooldown_seconds |-> cooldown_seconds, assets |-> assets, source |-> source]

AudioPack(buses, categories, cues) ==
    [present |-> TRUE, buses |-> buses, categories |-> categories, cues |-> cues]

Control(id, type) == [id |-> id, type |-> type]

Panel(id, controls) == [id |-> id, controls |-> controls]

Requirement(control_id) == [control_id |-> control_id]

Step(id, panel_id, controls) == [id |-> id, panel_id |-> panel_id, controls |-> controls]

UiChecklist(id, phase, role, steps) ==
    [id |-> id, phase |-> phase, role |-> role, steps |-> steps]

Tile(id) == [id |-> id]

Workspace(id, tiles) == [id |-> id, tiles |-> tiles]

Command(time) == JDict(<< <<"time", time>> >>)

\* What the script file of the autopilot holds.
ScriptContents ==
    {Script("missing", JNull), Script("blank", JNull), Script("invalid", JNull),
     Script("json", JList(<<>>)),
     Script("json", JDict(<< <<"sequence",
         JList(<<Command(JStr("x")), Command(JNum(2)), Command(JNum(1))>>)>> >>))}

\* The autopilots table with the script files it names.
MainAutopilots ==
    {<< <<>>, ScriptsOk >>}
        \cup {<< <<Autopilot("AP1", "ap1.json")>>, [path \in ScriptPaths |-> script] >> :
                script \in ScriptContents}

\* The events, the checklists, the pads, the failures and the consumables
\* pack: without and with issues.
MainTables ==
    {[events |-> <<>>, checklists |-> <<>>, pads |-> <<>>, failures |-> <<>>,
      consumables |-> JDict(<<>>)],
     [events |-> <<Event("E1", Num(Seconds(5, 0)), Num(Seconds(2, 0)), <<"E9", "E8">>, "AP9", "CL9",
                         Effect(JStr("F9")))>>,
      checklists |-> <<Checklist("CL1", 3), Checklist("CL1", 1)>>,
      pads |-> <<Pad("P1", JGet(<<"x">>), JNull)>>,
      failures |-> <<Failure("F1", "Bogus")>>,
      consumables |-> JDict(<< <<"power", JDict(<< <<"fuel_cells",
          JDict(<< <<"reserve_kg", JNum(-1)>>, <<"load_kw", JStr("x")>> >>)>> >>)>>,
          <<"communications", JNum(1)>> >>)]}

MainCommunications ==
    {JDict(<<>>), JNum(1),
     JList(<<JDict(<< <<"id", JStr("P1")>>, <<"station", JStr("MAD")>> >>),
             JDict(<< <<"id", JStr("P1")>>, <<"get_open", JGet(<<"x">>)>> >>)>>)}

MainAudio ==
    {EmptyAudio,
     AudioPack(<<Bus("B1", Num(0), <<"B9">>)>>, <<Category("K1", "B9")>>,
               <<Cue("Q1", "K9", Num(0), Num(-1), {}, None)>>)}

MainUi ==
    {[ui_panels |-> [present |-> FALSE, panels |-> <<>>],
      ui_checklists |-> [present |-> FALSE, checklists |-> <<>>],
      ui_workspaces |-> [present |-> FALSE, presets |-> <<>>]],
     [ui_panels |-> [present |-> TRUE,
          panels |-> <<Panel("P1", <<Control("C1", "dial"), Control("C1", "toggle")>>),
                       Panel("", <<>>)>>],
      ui_checklists |-> [present |-> TRUE,
          checklists |-> <<UiChecklist("U1", "Orbit", "CDR",
              <<Step("S1", "P9", <<Requirement("C9")>>),
                Step("S2", "P1", <<Requirement("C9"), Requirement("")>>)>>)>>],
      ui_workspaces |-> [present |-> TRUE,
          presets |-> <<Workspace("W1", <<Tile("T1"), Tile("T1"), Tile("")>>),
                        Workspace("W1", <<>>)>>]]}

MainInputs ==
    {[BaseMd EXCEPT !.events = tables.events, !.checklists = tables.checklists,
                    !.autopilots = aps[1],
                    !.pads = tables.pads, !.failures = tables.failures,
                    !.consumables = tables.consumables, !.communications = comms,
                    !.audio_cues = audio, !.ui_panels = ui.ui_panels,
                    !.ui_checklists = ui.ui_checklists,
                    !.ui_workspaces = ui.ui_workspaces] :
        aps \in MainAutopilots, tables \in MainTables,
        comms \in MainCommunications, audio \in MainAudio, ui \in MainUi}

Init ==
    \E aps \in MainAutopilots :
        \E m \in {x \in MainInputs : x.autopilots = aps[1]} : InitValidate(m, aps[2])

Next ==
    \/ Validate
    \/ Revalidate
    \/ \E path \in ScriptPaths, script \in ScriptContents : WriteScript(path, script)

Spec == Init /\ [][Next]_vars


\* The script files as the last call read them.
LastRead == read[Len(read)]

OutsideCategory(issues, category) ==
    SelectSeq(issues, LAMBDA issue : issue.category # category)

\* A call returns, with the issues result has outside the category.
SameOutside(outcome, category) ==
    /\ ~outcome.raised
    /\ OutsideCategory(outcome.issues, category) = OutsideCategory(result, category)

\* C4: the list returned for a MissionData and the list returned for the
\* MissionData that differs from it in the audio cue pack alone hold the same
\* issues outside category 'audio'; likewise for the communications dataset
\* and category 'communications'.
C4_ChecksIndependent ==
    Returned =>
      /\ \A audio \in MainAudio :
            SameOutside(validate_mission_data([md EXCEPT !.audio_cues = audio],
                                              LastRead), "audio")
      /\ \A comms \in MainCommunications :
            SameOutside(validate_mission_data([md EXCEPT !.communications = comms],
                                              LastRead), "communications")

\* A returned list with audio issues, communications issues and issues of
\* the checks that run after the communications check.
C4_Witness ==
    /\ Returned
    /\ md.audio_cues # EmptyAudio
    /\ \E i \in 1..Len(result) : result[i].category = "audio"
    /\ \E i \in 1..Len(result) : result[i].category = "communications"
    /\ \E i \in 1..Len(result) : result[i].category = "consumables"
    /\ \E i \in 1..Len(result) : result[i].category = "events"

\* (level, category, message) of a is not after that of b.
KeyNotAfter(a, b) ==
    \/ TextRank(a.level) < TextRank(b.level)
    \/ /\ a.level = b.level
       /\ \/ TextRank(a.category) < TextRank(b.category)
          \/ /\ a.category = b.category
             /\ TextRank(a.message) <= TextRank(b.message)

SameIssues(produced) ==
    /\ Len(produced) = Len(result)
    /\ \A x \in Range(produced) \cup Range(result) :
          Count(result, LAMBDA issue : issue = x)
          = Count(produced, LAMBDA issue : issue = x)

\* C7: the returned list ascends by (level, category, message), every error
\* comes before every warning, and the list is a permutation of the issues
\* the checks produced.
C7_SortedPermutation ==
    Returned =>
      /\ \A i \in 1..Len(result), j \in 1..Len(result) :
            i < j => KeyNotAfter(result[i], result[j])
      /\ \A i \in 1..Len(result), j \in 1..Len(result) :
            result[i].level = "error" /\ result[j].level = "warning" => i < j
      /\ SameIssues(CollectIssues(md, LastRead).issues)

\* A returned list with errors and warnings of several categories, two of
\* them with the same key.
C7_Witness ==
    /\ Returned
    /\ \E i \in 1..Len(result) : result[i].level = "warning" /\ result[i].category = "audio"
    /\ \E i \in 1..Len(result) : result[i].level = "error" /\ result[i].category = "ui_panels"
    /\ \E i \in 1..Len(result) : result[i].level = "warning" /\ result[i].category = "checklists"
    /\ \E i \in 1..Len(result) - 1 :
          /\ result[i] # result[i + 1]
          /\ KeyNotAfter(result[i + 1], result[i])


(***************************************************************************)
(* Inputs: autopilots and what their script files hold                     *)
(***************************************************************************)
AutopilotPaths == {"ap1.json", "ap2.json"}

\* A script file that is missing, empty, not JSON, or JSON of every type.
ScriptFiles ==
    {Script("missing", JNull), Script("blank", JNull), Script("invalid", JNull),
     Script("json", JNull), Script("json", JList(<<JNum(1)>>)),
     Script("json", JNum(1)), Script("json", JStr("x")),
     Script("json", JDict(<<>>)),
     Script("json", JDict(<< <<"sequence",
         JList(<<Command(JNum(2)), Command(JNum(1))>>)>> >>))}

AutopilotInputs ==
    {[BaseMd EXCEPT !.autopilots = aps,
                    !.failures = <<Failure("F1", "Bogus")>>] :
        aps \in {<<Autopilot("AP1", "ap1.json")>>,
                 <<Autopilot("AP1", "ap1.json"), Autopilot("AP2", "ap2.json")>>,
                 <<Autopilot("AP2", "ap2.json"), Autopilot("AP1", "ap1.json")>>}}

InitAutopilots ==
    \E m \in AutopilotInputs, files \in [AutopilotPaths -> ScriptFiles] :
        InitValidate(m, files)

SpecAutopilots == InitAutopilots /\ [][Validate]_vars

\* The script file is missing, empty, not valid JSON, or holds a JSON value
\* that is not an object.
UnusableScript(script) ==
    \/ script.file \in {"missing", "blank", "invalid"}
    \/ script.file = "json" /\ ~IsDict(script.payload)

AutopilotErrorReported(autopilot_id) ==
    \E i \in 1..Len(result) :
        /\ result[i].level = "error"
        /\ result[i].category = "autopilots"
        /\ result[i].context.autopilot_id = autopilot_id

\* C5: validate_mission_data returns a list and raises nothing; the list has
\* an error in category 'autopilots' for every autopilot whose script file
\* is missing, empty, not valid JSON or not a JSON object, and it has the
\* issues of the remaining autopilots and datasets.
C5_ReturnsAndReportsScripts ==
    /\ pc # "raised"
    /\ Returned =>
         /\ \A k \in 1..Len(md.autopilots) :
               UnusableScript(LastRead[md.autopilots[k].script_path])
                   => AutopilotErrorReported(md.autopilots[k].id)
         /\ ReportedAny("Unknown failure classification") = 1


(***************************************************************************)
(* Inputs: the data directory and the UI directory                         *)
(***************************************************************************)
FileNames == Range(DATA_FILES) \cup Range(UI_FILES)

\* The nine required files well-formed with the UI files in every state, and
\* one required file missing or malformed with every UI file present.
FileInputs ==
    {[name \in FileNames |-> IF name \in Range(UI_FILES) THEN ui[name] ELSE "ok"] :
        ui \in [Range(UI_FILES) -> {"ok", "missing", "nonobject", "malformed"}]}
    \cup
    {[name \in FileNames |-> IF name = bad THEN state ELSE "ok"] :
        bad \in Range(DATA_FILES), state \in {"missing", "malformed"}}

InitLoad ==
    /\ fs \in FileInputs
    /\ pc = "start"
    /\ loaded = NotLoaded
    /\ md = BaseMd
    /\ disk = ScriptsOk
    /\ result = <<>>
    /\ read = <<>>
    /\ calls = 0
    /\ arg = <<>>
    /\ out = <<>>
    /\ builder = <<>>
    /\ log = <<>>
    /\ markdown = <<>>

SpecLoad == InitLoad /\ [][Load]_vars

\* C6: when the nine required files are present and well-formed and each UI
\* file is present, holding an object, or absent, load_mission_data returns a
\* MissionData that holds every dataset read, the DSKY macro pack and the
\* docking gate configuration among them.
C6_LoadReturnsEveryDataset ==
    (/\ pc = "loaded"
     /\ \A name \in Range(DATA_FILES) : fs[name] = "ok"
     /\ \A name \in Range(UI_FILES) : fs[name] \in {"ok", "missing"})
        => /\ loaded.status = "returned"
           /\ Range(DATA_FILES) \cup Range(UI_FILES) \subseteq loaded.data


(***************************************************************************)
(* Inputs: audio cue packs                                                 *)
(***************************************************************************)
MaxBuses == 2

MaxRules == 1

MaxCategories == 2

MaxCues == 2

\* Buses, with and without an id, whose ducking rules name a bus defined
\* later, no bus, or nothing.
DuckingInputs ==
    {AudioPack(buses, <<>>, <<>>) :
        buses \in SeqsUpTo({Bus(id, NoNum, targets) :
                               id \in {"", "B1", "B2"},
                               targets \in SeqsUpTo({"B2", "B9"}, MaxRules)
                                           \cup {<<"">>}}, MaxBuses)}

\* Categories, with and without an id, that name a bus of the pack, no bus of
\* the pack, or nothing.
CategoryInputs ==
    {AudioPack(buses, categories, <<>>) :
        buses \in {<<>>, <<Bus("B1", NoNum, <<>>)>>},
        categories \in SeqsUpTo({Category(id, bus) :
                                    id \in {"", "K1", "K2"},
                                    bus \in {"", "B1", "B9"}}, MaxCategories)}

\* Cues, with and without an id, that name a category of the pack, no
\* category of the pack, or nothing.
CueInputs ==
    {AudioPack(<<>>, categories, cues) :
        categories \in {<<>>, <<Category("K1", "")>>, <<Category("", "")>>},
        cues \in SeqsUpTo({Cue(id, category, Num(1), Num(0), {"cue.ogg"}, "AFJ") :
                              id \in {"", "Q1", "Q2"},
                              category \in {"", "K1", "K9"}}, MaxCues)}

InitAudio ==
    \E pack \in DuckingInputs \cup CategoryInputs \cup CueInputs :
        InitValidate([BaseMd EXCEPT !.audio_cues = pack], ScriptsOk)

SpecAudio == InitAudio /\ [][Validate]_vars

IsBusId(token) ==
    \E k \in 1..Len(md.audio_cues.buses) : md.audio_cues.buses[k].id = token

IsCategoryId(token) ==
    \E k \in 1..Len(md.audio_cues.categories) : md.audio_cues.categories[k].id = token

\* The places <<bus, rule>> of the ducking rules whose target is no bus.
DanglingRules ==
    UNION {{<<k, j>> : j \in {i \in 1..Len(md.audio_cues.buses[k].ducking) :
                LET target == md.audio_cues.buses[k].ducking[i].target
                IN  Truthy(target) /\ ~IsBusId(target)}} :
           k \in 1..Len(md.audio_cues.buses)}

DanglingCategories ==
    {k \in 1..Len(md.audio_cues.categories) :
        /\ Truthy(md.audio_cues.categories[k].bus)
        /\ ~IsBusId(md.audio_cues.categories[k].bus)}

DanglingCues ==
    {k \in 1..Len(md.audio_cues.cues) :
        /\ Truthy(md.audio_cues.cues[k].category)
        /\ ~IsCategoryId(md.audio_cues.cues[k].category)}

\* The returned list has one error per dangling ducking rule, per category
\* of categories and per cue of cues, and no other error with these messages.
AudioReferencesReported(categories, cues) ==
    LET pack == md.audio_cues
    IN  /\ \A k \in 1..Len(pack.buses) : \A j \in 1..Len(pack.buses[k].ducking) :
              LET context == [bus_id |-> pack.buses[k].id,
                              target |-> pack.buses[k].ducking[j].target]
              IN  Reported("Audio bus ducking references unknown target", context)
                  = Cardinality({p \in DanglingRules :
                        /\ pack.buses[p[1]].id = context.bus_id
                        /\ pack.buses[p[1]].ducking[p[2]].target = context.target})
        /\ \A k \in 1..Len(pack.categories) :
              LET context == [category_id |-> pack.categories[k].id,
                              bus |-> pack.categories[k].bus]
              IN  Reported("Audio category references unknown bus", context)
                  = Cardinality({p \in categories :
                        /\ pack.categories[p].id = context.category_id
                        /\ pack.categories[p].bus = context.bus})
        /\ \A k \in 1..Len(pack.cues) :
              LET context == [cue_id |-> pack.cues[k].id,
                              category |-> pack.cues[k].category]
              IN  Reported("Audio cue references unknown category", context)
                  = Cardinality({p \in cues :
                        /\ pack.cues[p].id = context.cue_id
                        /\ pack.cues[p].category = context.category})
        /\ ReportedAny("Audio bus ducking references unknown target")
              = Cardinality(DanglingRules)
        /\ ReportedAny("Audio category references unknown bus")
              = Cardinality(categories)
        /\ ReportedAny("Audio cue references unknown category")
              = Cardinality(cues)

\* C8 as amended: the returned list has one error for every ducking rule
\* whose non-empty target is the id of no bus of the pack, for every category
\* with a non-empty id whose non-empty bus is the id of no bus, and for every
\* cue with a non-empty id whose non-empty category is the id of no category;
\* it has none for any other rule, category or cue.
C8_DanglingAudioReferences ==
    Returned =>
      AudioReferencesReported(
          {k \in DanglingCategories : Truthy(md.audio_cues.categories[k].id)},
          {k \in DanglingCues : Truthy(md.audio_cues.cues[k].id)})

\* C8 as stated: one error for every dangling ducking rule, every category
\* with a dangling bus and every cue with a dangling category.
C8_EveryDanglingAudioReference ==
    Returned => AudioReferencesReported(DanglingCategories, DanglingCues)

\* A returned list for a pack where one category names a bus of the pack and
\* another names no bus.
C8_Witness ==
    /\ Returned
    /\ md.audio_cues.buses = <<Bus("B1", NoNum, <<>>)>>
    /\ md.audio_cues.categories = <<Category("K1", "B9"), Category("K2", "B1")>>
    /\ Reported("Audio category references unknown bus",
                [category_id |-> "K1", bus |-> "B9"]) = 1
    /\ ReportedAny("Audio category references unknown bus") = 1

(***************************************************************************)
(* Inputs: UI panel and checklist packs                                    *)
(***************************************************************************)
MaxControls == 2

MaxRequirements == 2

MaxSteps == 2

PanelPack(panels) == [present |-> TRUE, panels |-> panels]

ChecklistPack(checklists) == [present |-> TRUE, checklists |-> checklists]

\* One panel with every list of controls, and one checklist whose steps name
\* that panel and require controls the panel has or lacks.
ControlInputs ==
    {[BaseMd EXCEPT !.ui_panels = PanelPack(<<Panel("P1", controls)>>),
                    !.ui_checklists = ChecklistPack(
                        <<UiChecklist("U1", "", "", steps)>>)] :
        controls \in SeqsUpTo({Control("C1", "toggle"), Control("C2", "toggle")},
                              MaxControls),
        steps \in SeqsUpTo(
            {Step(id, "P1", [i \in 1..Len(ids) |-> Requirement(ids[i])]) :
                id \in {"S1", "S2"},
                ids \in SeqsUpTo({"C1", "C9"}, MaxRequirements)}, MaxSteps)}

InitUiControls == \E m \in ControlInputs : InitValidate(m, ScriptsOk)

SpecUiControls == InitUiControls /\ [][Validate]_vars

\* The panel pack absent, or with panels that are accepted, lack an id or
\* repeat an id; the checklist pack absent, or with a checklist, with or
\* without an id, whose steps name an accepted panel, another panel or none.
PanelInputs ==
    {[BaseMd EXCEPT !.ui_panels = panels, !.ui_checklists = checklists] :
        panels \in {[present |-> FALSE, panels |-> <<>>]}
                   \cup {PanelPack(ps) :
                           ps \in {<<>>, <<Panel("P1", <<>>)>>, <<Panel("", <<>>)>>,
                                   <<Panel("P1", <<>>), Panel("P1", <<>>)>>,
                                   <<Panel("", <<>>), Panel("P1", <<>>)>>}},
        checklists \in {[present |-> FALSE, checklists |-> <<>>], ChecklistPack(<<>>)}
            \cup {ChecklistPack(<<UiChecklist(id, "", "", steps)>> \o more) :
                    id \in {"", "U1"},
                    steps \in SeqsUpTo({Step("S1", panel_id, <<>>) :
                                          panel_id \in {"", "P1", "P9"}}, MaxSteps),
                    more \in {<<>>,
                              <<UiChecklist("U1", "", "", <<Step("S2", "P9", <<>>)>>)>>}}}

InitUiPanels == \E m \in PanelInputs : InitValidate(m, ScriptsOk)

SpecUiPanels == InitUiPanels /\ [][Validate]_vars

UiChecklistPlaces == 1..Len(md.ui_checklists.checklists)

\* The places <<checklist, step>> of the UI checklist steps.
UiStepPlaces ==
    UNION {{<<c, s>> : s \in 1..Len(md.ui_checklists.checklists[c].steps)} :
           c \in UiChecklistPlaces}

UiStep(place) == md.ui_checklists.checklists[place[1]].steps[place[2]]

\* The places <<checklist, step, requirement>> of the control requirements.
UiRequirementPlaces ==
    UNION {{<<p[1], p[2], r>> : r \in 1..Len(UiStep(p).controls)} : p \in UiStepPlaces}

\* The panel pack has a panel with this id.
InPanelPack(panel_id) ==
    /\ md.ui_panels.present
    /\ \E k \in 1..Len(md.ui_panels.panels) : md.ui_panels.panels[k].id = panel_id

\* The ids of the controls defined on the first panel with this id.
ControlsOn(panel_id) ==
    LET panels == md.ui_panels.panels
        first == CHOOSE k \in 1..Len(panels) :
                    /\ panels[k].id = panel_id
                    /\ \A j \in 1..(k - 1) : panels[j].id # panel_id
    IN  {panels[first].controls[i].id : i \in 1..Len(panels[first].controls)}

UnknownControlContext(place) ==
    [checklist_id |-> md.ui_checklists.checklists[place[1]].id,
     step_id |-> UiStep(place).id,
     panel_id |-> UiStep(place).panel_id,
     control_id |-> UiStep(place).controls[place[3]].control_id]

\* The control requirements, in steps that name a panel of the pack, whose
\* non-empty controlId is the id of no control of that panel.
DanglingRequirements ==
    {p \in UiRequirementPlaces :
        /\ Truthy(UiStep(p).panel_id)
        /\ InPanelPack(UiStep(p).panel_id)
        /\ Truthy(UiStep(p).controls[p[3]].control_id)
        /\ UiStep(p).controls[p[3]].control_id \notin ControlsOn(UiStep(p).panel_id)}

\* C9: for every UI checklist step that names a panel of the panel pack, the
\* returned list has one 'Checklist references unknown panel control' error
\* per control requirement whose non-empty controlId is the id of no control
\* of that panel, and none for a requirement whose controlId is the id of one.
C9_UnknownControlsReported ==
    Returned =>
      \A place \in UiRequirementPlaces :
          (Truthy(UiStep(place).panel_id) /\ InPanelPack(UiStep(place).panel_id))
          => Reported("Checklist references unknown panel control",
                      UnknownControlContext(place))
             = Cardinality({p \in DanglingRequirements :
                   UnknownControlContext(p) = UnknownControlContext(place)})

\* A panel is accepted when its id is non-empty and it is the first panel of
\* the pack with that id.
Accepted(panel_id) == Truthy(panel_id) /\ InPanelPack(panel_id)

UnknownPanelContext(place) ==
    [checklist_id |-> md.ui_checklists.checklists[place[1]].id,
     step_id |-> UiStep(place).id,
     panel_id |-> UiStep(place).panel_id]

\* The steps whose non-empty panel id is the id of no accepted panel.
DanglingSteps ==
    {p \in UiStepPlaces :
        Truthy(UiStep(p).panel_id) /\ ~Accepted(UiStep(p).panel_id)}

\* The returned list has one 'Checklist step references unknown panel' error
\* per step of steps, and no other error with this message.
UnknownPanelsReported(steps) ==
    /\ \A place \in UiStepPlaces :
          Reported("Checklist step references unknown panel",
                   UnknownPanelContext(place))
          = Cardinality({p \in steps :
                UnknownPanelContext(p) = UnknownPanelContext(place)})
    /\ ReportedAny("Checklist step references unknown panel") = Cardinality(steps)

\* C10 as amended: a step of a UI checklist that has a non-empty id yields a
\* 'Checklist step references unknown panel' error exactly when its panel id
\* is non-empty and no panel with that id was accepted from the panel pack
\* (every such step when the panel pack is absent); the steps of a checklist
\* without an id yield none.
C10_UnknownPanelsOfIdentifiedChecklists ==
    Returned =>
      UnknownPanelsReported(
          {p \in DanglingSteps : Truthy(md.ui_checklists.checklists[p[1]].id)})

\* C10 as stated: every UI checklist step yields the error exactly when its
\* panel id is non-empty and no panel with that id was accepted.
C10_UnknownPanelsOfEveryStep ==
    Returned => UnknownPanelsReported(DanglingSteps)

\* A returned list for a checklist with an id, one step of which names the
\* accepted panel and the other a panel the pack lacks.
C10_Witness ==
    /\ Returned
    /\ md.ui_panels.present
    /\ md.ui_panels.panels = <<Panel("", <<>>), Panel("P1", <<>>)>>
    /\ Len(md.ui_checklists.checklists) = 1
    /\ md.ui_checklists.checklists[1].id = "U1"
    /\ md.ui_checklists.checklists[1].steps
          = <<Step("S1", "P1", <<>>), Step("S1", "P9", <<>>)>>
    /\ Reported("Checklist step references unknown panel",
                [checklist_id |-> "U1", step_id |-> "S1", panel_id |-> "P9"]) = 1
    /\ ReportedAny("Checklist step references unknown panel") = 1


(***************************************************************************)
(* The optional UI loaders and the UI packs that are None                  *)
(***************************************************************************)
\* Importing ingestlib.loader: "ok", or the exception the import raises.
ImportLoader ==
    IF LoaderImports \subseteq RecordsExports THEN "ok" ELSE "ImportError"

\* Importing the loader and calling one optional UI loader (load_ui_checklists,
\* load_ui_panels, load_ui_workspaces, load_ui_dsky_macros, load_docking_gates)
\* on a path in the given state: "None", "pack", or the exception raised.
load_ui_pack(state) ==
    IF ImportLoader # "ok" THEN ImportLoader ELSE LoadOptional(state)

\* A caller imports the loader and calls the optional loader of one UI file.
LoadUi(name) ==
    /\ pc = "start"
    /\ loaded' = [status |-> load_ui_pack(fs[name]), data |-> {name}]
    /\ pc' = "loaded_ui"
    /\ UNCHANGED <<md, disk, result, read, calls, fs, timeVars, provVars>>

\* Every state of the five UI files.
UiFileInputs ==
    {[name \in FileNames |-> IF name \in Range(UI_FILES) THEN ui[name] ELSE "ok"] :
        ui \in [Range(UI_FILES) -> {"ok", "missing", "nonobject", "malformed"}]}

\* Each UI pack None, or holding entries without an id and entries that
\* repeat an id.
OptionalUiInputs ==
    {[BaseMd EXCEPT !.ui_panels = panels, !.ui_checklists = checklists,
                    !.ui_workspaces = workspaces] :
        panels \in {ui.ui_panels : ui \in MainUi},
        checklists \in {ui.ui_checklists : ui \in MainUi}
            \cup {ChecklistPack(<<UiChecklist("", "", "", <<>>),
                                  UiChecklist("U1", "", "", <<>>),
                                  UiChecklist("U1", "", "", <<>>)>>)},
        workspaces \in {ui.ui_workspaces : ui \in MainUi}}

InitOptionalUi ==
    \/ /\ fs \in UiFileInputs
       /\ pc = "start"
       /\ loaded = NotLoaded
       /\ md = BaseMd
       /\ disk = ScriptsOk
       /\ result = <<>>
       /\ read = <<>>
       /\ calls = 0
       /\ arg = <<>>
       /\ out = <<>>
       /\ builder = <<>>
       /\ log = <<>>
       /\ markdown = <<>>
    \/ \E m \in OptionalUiInputs : InitValidate(m, ScriptsOk)

NextOptionalUi ==
    \/ \E name \in Range(UI_FILES) : LoadUi(name)
    \/ Validate

SpecOptionalUi == InitOptionalUi /\ [][NextOptionalUi]_vars

\* The issues of one category in the list returned.
IssuesOf(category) == {i \in 1..Len(result) : result[i].category = category}

\* A call of validate_mission_data that returns reports no issue of a UI
\* pack's category when that pack is None.
AbsentPacksYieldNoIssue ==
    Returned
       => /\ ~md.ui_panels.present => IssuesOf("ui_panels") = {}
          /\ ~md.ui_checklists.present => IssuesOf("ui_checklists") = {}
          /\ ~md.ui_workspaces.present => IssuesOf("ui_workspaces") = {}

\* C11: an optional UI loader called on a file that does not exist, or whose
\* JSON payload is not an object, returns None without raising; and a call of
\* validate_mission_data that returns reports no 'ui_panels' issue when the
\* panel pack is None, no 'ui_checklists' issue when the checklist pack is
\* None and no 'ui_workspaces' issue when the workspace pack is None.
C11_AbsentPacksHandled ==
    /\ pc = "loaded_ui"
          => \A name \in loaded.data :
                fs[name] \in {"missing", "nonobject"} => loaded.status = "None"
    /\ AbsentPacksYieldNoIssue


(***************************************************************************)
(* time.format_get (default precision and zero_pad_hours)                  *)
(***************************************************************************)
\* The decimal digits of n >= 0, as "d" formats them.
RECURSIVE DigitsOf(_)
DigitsOf(n) ==
    IF n >= 10 THEN DigitsOf(n \div 10) \o DigitsOf(n % 10)
    ELSE << <<"0", "1", "2", "3", "4", "5", "6", "7", "8", "9">>[n + 1] >>

\* A zero-padded field of at least width characters (0{width}d).
RECURSIVE ZeroPad(_, _)
ZeroPad(cs, width) ==
    IF Len(cs) >= width THEN cs ELSE ZeroPad(<<"0">> \o cs, width)

\* int(round(remaining)) for remaining = whole + milli / 1000 >= 0: round()
\* sends a tie to the even neighbour.
RoundHalfEven(whole, milli) ==
    IF milli > 500 \/ (milli = 500 /\ whole % 2 = 1) THEN whole + 1 ELSE whole

\* Mutant: the hours are written without zero padding.
HoursTextUnpadded(hours) == DigitsOf(hours)

\* {hours:0{zero_pad_hours}d} with zero_pad_hours = 3.
HoursText(hours) == ZeroPad(DigitsOf(hours), 3)

\* f"{sign}{hours:03d}:{minutes:02d}:{sec:02d}"
FormatFields(sign, hours, minutes, sec) ==
    sign \o HoursText(hours) \o <<":">> \o ZeroPad(DigitsOf(minutes), 2)
         \o <<":">> \o ZeroPad(DigitsOf(sec), 2)

\* if minutes >= 60: hours += 1; minutes -= 60
CarryMinutes(sign, hours, minutes, sec) ==
    IF minutes >= 60 THEN FormatFields(sign, hours + 1, minutes - 60, sec)
    ELSE FormatFields(sign, hours, minutes, sec)

\* Mutant: a second count rounded up to 60 is written as it is.
CarrySecondsDropped(sign, hours, minutes, sec) ==
    CarryMinutes(sign, hours, minutes, sec)

\* if sec >= 60: minutes += 1; sec -= 60
CarrySeconds(sign, hours, minutes, sec) ==
    IF sec >= 60 THEN CarryMinutes(sign, hours, minutes + 1, sec - 60)
    ELSE CarryMinutes(sign, hours, minutes, sec)

\* hours, minutes and the rounded seconds of total = abs(value).
FormatTotal(sign, total) ==
    CarrySeconds(sign, total.s \div 3600, (total.s % 3600) \div 60,
                 RoundHalfEven(total.s % 60, total.milli))

\* format_get(seconds) for a number: the characters of the string returned.
format_get(seconds) ==
    IF seconds.s >= 0 THEN FormatTotal(<<>>, seconds)
    ELSE IF seconds.milli = 0 THEN FormatTotal(<<"-">>, Seconds(-seconds.s, 0))
    ELSE FormatTotal(<<"-">>, Seconds(-seconds.s - 1, 1000 - seconds.milli))

(***************************************************************************)
(* Calls of the time helpers                                               *)
(***************************************************************************)
\* The state before a caller applies the helper f to value (and delta).
InitTime(f, value, delta) ==
    /\ arg = [f |-> f, value |-> value, delta |-> delta]
    /\ out = <<>>
    /\ pc = "start"
    /\ md = BaseMd
    /\ disk = ScriptsOk
    /\ result = <<>>
    /\ read = <<>>
    /\ calls = 0
    /\ fs = AllFilesOk
    /\ loaded = NotLoaded
    /\ builder = <<>>
    /\ log = <<>>
    /\ markdown = <<>>

\* What a call of a time helper leaves alone.
TimeFrame == UNCHANGED <<md, disk, result, read, calls, fs, loaded, arg, provVars>>

\* What a helper that returns Optional[str] gives its caller: kind "ok" with
\* the characters of the string, "none" for None, or the exception raised.
TextResult(kind, text) == [kind |-> kind, text |-> text]

\* The value handed to the next helper when the previous one returned.
AsArgument(r) == IF r.kind = "ok" THEN JGet(r.text) ELSE JNull

\* format_get(s) on the whole number of seconds at hand.
FormatGet ==
    /\ pc = "start"
    /\ arg.f = "format_get"
    /\ out' = <<TextResult("ok", format_get(Seconds(arg.value, 0)))>>
    /\ pc' = "formatted"
    /\ TimeFrame

\* parse_get on the string the previous call returned.
ParseReturned ==
    /\ pc = "formatted"
    /\ out[Len(out)].kind = "ok"
    /\ out' = Append(out, parse_get(JGet(out[Len(out)].text)))
    /\ pc' = "parsed"
    /\ TimeFrame

(***************************************************************************)
(* Inputs: whole seconds                                                   *)
(***************************************************************************)
MaxSeconds == 3700

\* Every second of the first hour and beyond, and the seconds around the
\* hours where the hour field grows.
SecondsInputs ==
    (0..MaxSeconds)
    \cup {h * 3600 + r : h \in {9, 10, 99, 100, 999, 1000, 12345},
                         r \in {0, 59, 60, 3540, 3599}}

InitRoundTrip == \E s \in SecondsInputs : InitTime("format_get", s, 0)

NextRoundTrip == FormatGet \/ ParseReturned

SpecRoundTrip == InitRoundTrip /\ [][NextRoundTrip]_vars

\* text is H..H:MM:SS, with at least three hour digits and two digits for
\* the minutes and for the seconds, and its fields add up to total seconds.
IsCanonicalGetOf(text, total) ==
    LET n == Len(text)
        hours == SubSeq(text, 1, n - 6)
        minutes == SubSeq(text, n - 4, n - 3)
        seconds == SubSeq(text, n - 1, n)
    IN  /\ n >= 9
        /\ text[n - 5] = ":" /\ text[n - 2] = ":"
        /\ AllDigits(hours) /\ AllDigits(minutes) /\ AllDigits(seconds)
        /\ IntOfDigits(hours) * 3600 + IntOfDigits(minutes) * 60
               + IntOfDigits(seconds) = total

\* C12: for every whole number s >= 0 of seconds, format_get(s) has the form
\* H..H:MM:SS with the hours zero-padded to at least three digits and
\* hours * 3600 + minutes * 60 + seconds = s, and parse_get(format_get(s))
\* equals s.
C12_RoundTrip ==
    /\ pc \in {"formatted", "parsed"} => IsCanonicalGetOf(out[1].text, arg.value)
    /\ pc = "parsed" => out[2] = GetSeconds(arg.value, 0)

\* A round trip of a time below one hour, whose hour field is padded, and one
\* of a time whose hour field needs four digits.
C12_Witness ==
    /\ pc = "parsed"
    /\ arg.value = 1000 * 3600 + 59
    /\ out[1].text = <<"1", "0", "0", "0", ":", "0", "0", ":", "5", "9">>


(***************************************************************************)
(* time.normalize_get (default precision)                                  *)
(***************************************************************************)
\* The return of normalize_get once parse_get has returned or raised.
NormalizeParsed(parsed) ==
    IF parsed.kind = "none" THEN TextResult("none", <<>>)
    ELSE IF parsed.kind # "ok" THEN TextResult(parsed.kind, <<>>)
    ELSE TextResult("ok", format_get(Seconds(parsed.s, parsed.milli)))

normalize_get(value) == NormalizeParsed(parse_get(value))

\* normalize_get(v) on the value at hand.
Normalize ==
    /\ pc = "start"
    /\ arg.f = "normalize_get"
    /\ out' = <<normalize_get(arg.value)>>
    /\ pc' = "formatted"
    /\ TimeFrame

\* normalize_get on what the first call returned.
NormalizeAgain ==
    /\ pc = "formatted"
    /\ arg.f = "normalize_get"
    /\ out[1].kind \in {"ok", "none"}
    /\ out' = Append(out, normalize_get(AsArgument(out[1])))
    /\ pc' = "renormalized"
    /\ TimeFrame

(***************************************************************************)
(* Inputs: GET strings                                                     *)
(***************************************************************************)
HourFields == {<<"0">>, <<"0", "0", "7">>, <<"9", "9">>, <<"1", "0", "0", "0">>}

MinuteFields == {<<"0">>, <<"0", "7">>, <<"5", "9">>}

SecondFields == {<<"0">>, <<"0", "8">>, <<"5", "8">>, <<"5", "9">>}

FractionFields ==
    {<<>>, <<".", "0">>, <<".", "4">>, <<".", "5">>, <<".", "5", "0">>,
     <<".", "4", "9", "9">>, <<".", "5", "0", "0">>, <<".", "5", "0", "1">>,
     <<".", "9", "9", "9">>}

\* Strings that parse_get accepts, some of them between blanks.
GetStrings ==
    {pad \o h \o <<":">> \o m \o <<":">> \o sec \o f \o pad :
        h \in HourFields, m \in MinuteFields, sec \in SecondFields,
        f \in FractionFields, pad \in {<<>>, <<" ">>}}

\* Strings that hold nothing but blanks.
BlankStrings == {<<>>, <<" ">>, <<" ", " ">>}

NormalizeInputs ==
    {JNull} \cup {JGet(cs) : cs \in GetStrings \cup BlankStrings}

InitNormalize == \E v \in NormalizeInputs : InitTime("normalize_get", v, 0)

NextNormalize == Normalize \/ NormalizeAgain \/ ParseReturned

SpecNormalize == InitNormalize /\ [][NextNormalize]_vars

\* The value at hand is a string that parse_get accepts.
AcceptedGetString == arg.value.t = "str" /\ parse_get(arg.value).kind = "ok"

\* The value at hand is None or a string of blanks.
NoneOrBlank ==
    arg.value.t = "null" \/ (arg.value.t = "str" /\ Strip(arg.value.items) = <<>>)

\* C13: for every GET string v that parse_get accepts, normalize_get(v) is a
\* string that parse_get accepts and normalize_get(normalize_get(v)) equals
\* normalize_get(v); None and blank strings normalize to None.
C13_NormalizeIdempotent ==
    /\ (pc = "formatted" /\ AcceptedGetString) => out[1].kind = "ok"
    /\ (pc = "parsed" /\ AcceptedGetString) => out[2].kind = "ok"
    /\ (pc = "renormalized" /\ AcceptedGetString) => out[2] = out[1]
    /\ (pc = "formatted" /\ NoneOrBlank) => out[1].kind = "none"

\* 0:59:59.5 is normalized to 001:00:00, and so is that string.
C13_Witness ==
    /\ pc = "renormalized"
    /\ arg.value = JGet(<<"0", ":", "5", "9", ":", "5", "9", ".", "5">>)
    /\ out[1].text = <<"0", "0", "1", ":", "0", "0", ":", "0", "0">>
    /\ out[2] = out[1]


(***************************************************************************)
(* time.add_seconds                                                        *)
(***************************************************************************)
\* The return of add_seconds once parse_get has returned or raised.
AddToParsed(base, delta_seconds) ==
    IF base.kind = "none" THEN TextResult("none", <<>>)
    ELSE IF base.kind # "ok" THEN TextResult(base.kind, <<>>)
    ELSE TextResult("ok", format_get(Seconds(base.s + delta_seconds, base.milli)))

add_seconds(value, delta_seconds) == AddToParsed(parse_get(value), delta_seconds)

\* add_seconds(value, delta) on the value and the delta at hand.
AddSeconds ==
    /\ pc = "start"
    /\ arg.f = "add_seconds"
    /\ out' = <<add_seconds(arg.value, arg.delta)>>
    /\ pc' = "formatted"
    /\ TimeFrame

MaxDelta == 61

\* GET values with and without a fraction, as strings and as numbers, None
\* and a blank string.
AddValues ==
    {JNull, JGet(<<" ">>), JNum(0), JNum(90),
     JGet(<<"0", "0", "0", ":", "0", "0", ":", "0", "0">>),
     JGet(<<"0", "0", "0", ":", "0", "0", ":", "0", "5">>),
     JGet(<<"0", ":", "5", "9", ":", "5", "9">>),
     JGet(<<" ", "0", "0", "1", ":", "0", "0", ":", "0", "0", " ">>),
     JGet(<<"0", "0", "0", ":", "0", "1", ":", "0", "5", ".", "5">>),
     JGet(<<"0", "0", "0", ":", "0", "1", ":", "0", "5", ".", "2", "5">>)}

Deltas == (-MaxDelta..MaxDelta) \cup {-3600, 3600, -86400, 86400}

InitAddSeconds ==
    \E v \in AddValues, d \in Deltas : InitTime("add_seconds", v, d)

NextAddSeconds == AddSeconds \/ ParseReturned

SpecAddSeconds == InitAddSeconds /\ [][NextAddSeconds]_vars

\* The value at hand is one parse_get turns into seconds.
ValidGetValue == parse_get(arg.value).kind = "ok"

\* The seconds of the value at hand plus the delta at hand.
ExpectedSum ==
    GetSeconds(parse_get(arg.value).s + arg.delta, parse_get(arg.value).milli)

\* C14: for every valid GET value and every integer delta, add_seconds
\* returns a string that parse_get accepts and that parses to
\* parse_get(value) + delta; for None and for a blank value it returns None.
C14_AddSecondsParsesToSum ==
    /\ (pc = "formatted" /\ ValidGetValue) => out[1].kind = "ok"
    /\ (pc = "formatted" /\ ~ValidGetValue) => out[1].kind = "none"
    /\ pc = "parsed" => out[2] = ExpectedSum

\* What add_seconds does keep: when the value has no fraction and the sum is
\* not negative, the string returned parses to the sum.
AddSecondsOfWholeNonNegativeSum ==
    (/\ pc = "parsed"
     /\ parse_get(arg.value).milli = 0
     /\ parse_get(arg.value).s + arg.delta >= 0) => out[2] = ExpectedSum


(***************************************************************************)
(* time.ensure_monotonic                                                   *)
(***************************************************************************)
\* What ensure_monotonic gives its caller: kind "ok" with the bool returned,
\* or the exception parse_get raised.
BoolResult(kind, value) == [kind |-> kind, value |-> value]

RECURSIVE MonotonicLoop(_, _)

\* Mutant: a value equal to the previous one ends the loop with False.
MonotonicStepStrict(rest, previous, current) ==
    IF current.kind = "none" THEN MonotonicLoop(rest, previous)
    ELSE IF current.kind # "ok" THEN BoolResult(current.kind, FALSE)
    ELSE IF previous # <<>>
            /\ ~SecLt(previous[1], Seconds(current.s, current.milli))
    THEN BoolResult("ok", FALSE)
    ELSE MonotonicLoop(rest, <<Seconds(current.s, current.milli)>>)

\* The body of the loop once parse_get(raw) has returned or raised;
\* previous = <<>> stands for None.
MonotonicStep(rest, previous, current) ==
    IF current.kind = "none" THEN MonotonicLoop(rest, previous)
    ELSE IF current.kind # "ok" THEN BoolResult(current.kind, FALSE)
    ELSE IF previous # <<>>
            /\ SecLt(Seconds(current.s, current.milli), previous[1])
    THEN BoolResult("ok", FALSE)
    ELSE MonotonicLoop(rest, <<Seconds(current.s, current.milli)>>)

MonotonicLoop(get_values, previous) ==
    IF get_values = <<>> THEN BoolResult("ok", TRUE)
    ELSE MonotonicStep(Tail(get_values), previous, parse_get(Head(get_values)))

ensure_monotonic(get_values) == MonotonicLoop(get_values, <<>>)

\* ensure_monotonic on the sequence at hand.
EnsureMonotonic ==
    /\ pc = "start"
    /\ arg.f = "ensure_monotonic"
    /\ out' = <<ensure_monotonic(arg.value)>>
    /\ pc' = "checked"
    /\ TimeFrame

MaxValues == 4

\* None, a blank string, GET strings and numbers of one to three seconds (two
\* of them equal), and a string that parse_get rejects.
MonotonicValues ==
    {JNull, JGet(<<" ">>), JNum(2),
     JGet(<<"0", ":", "0", ":", "1">>),
     JGet(<<"0", "0", "0", ":", "0", "0", ":", "0", "2">>),
     JGet(<<"0", ":", "0", ":", "2", ".", "5">>),
     JGet(<<"x">>)}

InitMonotonic ==
    \E values \in SeqsUpTo(MonotonicValues, MaxValues) :
        InitTime("ensure_monotonic", values, 0)

SpecMonotonic == InitMonotonic /\ [][EnsureMonotonic]_vars

\* The places of the sequence at hand that hold a value: neither None nor a
\* blank string.
ValuePlaces == {i \in 1..Len(arg.value) : parse_get(arg.value[i]).kind # "none"}

\* The seconds of the value at place i.
SecondsAt(i) == Seconds(parse_get(arg.value[i]).s, parse_get(arg.value[i]).milli)

\* Place j holds the value that follows the value at place i.
FollowsAt(i, j) ==
    /\ i \in ValuePlaces /\ j \in ValuePlaces /\ i < j
    /\ \A k \in ValuePlaces : ~(i < k /\ k < j)

\* The value at place j is smaller than the value before it.
DescentAt(j) ==
    /\ parse_get(arg.value[j]).kind = "ok"
    /\ \E i \in 1..Len(arg.value) :
          /\ FollowsAt(i, j)
          /\ parse_get(arg.value[i]).kind = "ok"
          /\ SecLt(SecondsAt(j), SecondsAt(i))

\* Every value up to place j is one parse_get accepts.
ValidUpTo(j) == \A k \in 1..j : parse_get(arg.value[k]).kind \in {"ok", "none"}

\* C15: over a sequence of GET values, ensure_monotonic returns True exactly
\* when, None and blank entries ignored, no value is smaller than the value
\* before it (equal neighbours are allowed, an empty sequence gives True);
\* and it returns False at the first value smaller than the one before it,
\* whatever follows.
C15_MonotonicIffNonDecreasing ==
    pc = "checked"
       => /\ ValidUpTo(Len(arg.value))
                => /\ out[1].kind = "ok"
                   /\ out[1].value
                         <=> ~\E j \in 1..Len(arg.value) : DescentAt(j)
          /\ (\E j \in 1..Len(arg.value) : DescentAt(j) /\ ValidUpTo(j))
                => out[1] = BoolResult("ok", FALSE)

\* True for two equal values around a None.
C15_Witness ==
    /\ pc = "checked"
    /\ arg.value = <<JNum(2), JNull,
                     JGet(<<"0", "0", "0", ":", "0", "0", ":", "0", "2">>)>>
    /\ out[1] = BoolResult("ok", TRUE)


(***************************************************************************)
(* Calls of time.parse_get                                                 *)
(***************************************************************************)
\* parse_get(value) on the value at hand.
ParseGet ==
    /\ pc = "start"
    /\ arg.f = "parse_get"
    /\ out' = <<parse_get(arg.value)>>
    /\ pc' = "parsed_value"
    /\ TimeFrame

\* Strings put together from an hours field, a minutes field, a seconds
\* field and a fraction, well-formed or not, with the separators between
\* them and blanks around them.
ParseStrings ==
    {pad \o h \o sep1 \o m \o sep2 \o sec \o f \o pad :
        pad \in {<<>>, <<" ">>},
        h \in {<<>>, <<"0">>, <<"1", "2">>, <<"1", "0", "0">>, <<"-", "1">>,
               <<"x">>},
        sep1 \in {<<":">>, <<".">>, <<>>},
        m \in {<<>>, <<"7">>, <<"5", "9">>, <<"6", "0">>, <<"0", "0", "7">>,
               <<"0", " ">>},
        sep2 \in {<<":">>, <<" ">>},
        sec \in {<<>>, <<"0">>, <<"0", "9">>, <<"5", "9">>, <<"6", "1">>, <<"x">>},
        f \in {<<>>, <<".">>, <<".", "5">>, <<".", "0", "2", "5">>,
               <<".", "1", "2", "3", "4">>, <<".", "x">>, <<":", "5">>}}

\* None, strings, numbers, a bool, a float that is not finite, and values of
\* types parse_get does not support.
ParseInputs ==
    {JNull, JNum(0), JNum(90), JBool(1), JNaN, JList(<<>>), JDict(<<>>)}
    \cup {JGet(cs) : cs \in ParseStrings \cup BlankStrings}

InitParse == \E v \in ParseInputs : InitTime("parse_get", v, 0)

SpecParse == InitParse /\ [][ParseGet]_vars

\* A minutes or seconds field: one or two digits that make a number in 0..59.
UpTo59(field) ==
    Len(field) \in {1, 2} /\ AllDigits(field) /\ IntOfDigits(field) <= 59

\* text is hours:minutes:seconds[.fraction] with its colons at i and j and
\* its fraction, when k is a place of text, after the point at k: hours of
\* one or more digits, minutes and seconds in 0..59, a fraction of one to
\* three digits.
FormAt(text, i, j, k) ==
    /\ 1 < i /\ i < j /\ j < k
    /\ AllDigits(SubSeq(text, 1, i - 1))
    /\ UpTo59(SubSeq(text, i + 1, j - 1))
    /\ UpTo59(SubSeq(text, j + 1, k - 1))
    /\ k <= Len(text)
          => Len(text) - k \in 1..3 /\ AllDigits(SubSeq(text, k + 1, Len(text)))

\* The ways to read text as hours:minutes:seconds[.fraction].
Readings(text) ==
    {r \in Places(text, ":") \X Places(text, ":")
              \X (Places(text, ".") \cup {Len(text) + 1}) :
        FormAt(text, r[1], r[2], r[3])}

\* hours * 3600 + minutes * 60 + seconds (+ fraction) of a reading of text.
SecondsOfReading(text, r) ==
    GetSeconds(IntOfDigits(SubSeq(text, 1, r[1] - 1)) * 3600
                   + IntOfDigits(SubSeq(text, r[1] + 1, r[2] - 1)) * 60
                   + IntOfDigits(SubSeq(text, r[2] + 1, r[3] - 1)),
               IF r[3] > Len(text) THEN 0
               ELSE IntOfDigits(SubSeq(text, r[3] + 1, Len(text)))
                        * Pow10(3 - (Len(text) - r[3])))

\* What the claim gives for a string, blanks around it removed.
AsClaimedOfString(text, parsed) ==
    IF text = <<>> THEN parsed = GetNone
    ELSE IF Readings(text) = {} THEN parsed = GetRaise("ValueError")
    ELSE \A r \in Readings(text) : parsed = SecondsOfReading(text, r)

\* C16: parse_get returns None for None and for a blank string, raises
\* ValueError for a non-blank string that is not hours:minutes:seconds
\* [.fraction] with minutes and seconds in 0..59 and a fraction of at most
\* three digits, returns hours * 3600 + minutes * 60 + seconds (+ fraction)
\* for a string that is, and raises TypeError for a value of a type it does
\* not support.
C16_ParseGetCases ==
    pc = "parsed_value"
       => /\ arg.value.t = "null" => out[1] = GetNone
          /\ arg.value.t = "str"
                => AsClaimedOfString(Strip(arg.value.items), out[1])
          /\ arg.value.t \in {"list", "dict"} => out[1] = GetRaise("TypeError")

\* A string with a three-digit fraction, between blanks, is parsed.
C16_Witness ==
    /\ pc = "parsed_value"
    /\ arg.value = JGet(<<" ", "1", "2", ":", "7", ":", "0", "9", ".", "0", "2",
                          "5", " ">>)
    /\ out[1] = GetSeconds(12 * 3600 + 7 * 60 + 9, 25)


(***************************************************************************)
(* provenance.ProvenanceBuilder                                            *)
(***************************************************************************)
\* A str is held as the sequence of its pieces: one piece for each character
\* that matters ("|", "\n") and for each literal of the source, none of which
\* holds a line break.
ProvenanceEntry(dataset, row_range, source, notes) ==
    [dataset |-> dataset, row_range |-> row_range, source |-> source,
     notes |-> notes]

\* text.replace("|", "\|")
RECURSIVE EscapePipes(_)
EscapePipes(text) ==
    IF text = <<>> THEN <<>>
    ELSE (IF Head(text) = "|" THEN <<"\\|">> ELSE <<Head(text)>>)
         \o EscapePipes(Tail(text))

\* f"| {dataset} | {row_range} | {source} | {notes} |" with (entry.notes or "").
TableRow(entry) ==
    <<"| ">> \o EscapePipes(entry.dataset)
        \o <<" | ">> \o EscapePipes(entry.row_range)
        \o <<" | ">> \o EscapePipes(entry.source)
        \o <<" | ">> \o EscapePipes(IF entry.notes = None THEN <<>> ELSE entry.notes)
        \o <<" |">>

\* "\n".join(lines)
RECURSIVE JoinLines(_)
JoinLines(lines) ==
    IF lines = <<>> THEN <<>>
    ELSE IF Len(lines) = 1 THEN lines[1]
    ELSE lines[1] \o <<"\n">> \o JoinLines(Tail(lines))

\* The header row and the separator row.
TableHead ==
    << <<"| Dataset | Rows | Source | Notes |">>, <<"| --- | --- | --- | --- |">> >>

\* to_markdown() of a builder that holds the given entries.
to_markdown(held) ==
    JoinLines(TableHead
              \o [i \in 1..Len(held) |-> TableRow(held[i])])

MaxOps == 3

\* What a call on the builder leaves alone.
ProvFrame == UNCHANGED <<md, disk, result, read, calls, fs, loaded, timeVars>>

\* builder.add(dataset, row_range, source, notes=notes)
Add(dataset, row_range, source, notes) ==
    /\ pc \in {"building", "emitted"}
    /\ Len(log) < MaxOps
    /\ builder' = Append(builder, ProvenanceEntry(dataset, row_range, source, notes))
    /\ log' = Append(log, [op |-> "add",
                           entries |-> <<ProvenanceEntry(dataset, row_range,
                                                         source, notes)>>])
    /\ pc' = "building"
    /\ UNCHANGED markdown
    /\ ProvFrame

\* builder.extend(more) with an iterable that is not the builder's own list.
Extend(more) ==
    /\ pc \in {"building", "emitted"}
    /\ Len(log) < MaxOps
    /\ builder' = builder \o more
    /\ log' = Append(log, [op |-> "extend", entries |-> more])
    /\ pc' = "building"
    /\ UNCHANGED markdown
    /\ ProvFrame

\* builder.clear()
Clear ==
    /\ pc \in {"building", "emitted"}
    /\ Len(log) < MaxOps
    /\ builder' = <<>>
    /\ log' = Append(log, [op |-> "clear", entries |-> <<>>])
    /\ pc' = "building"
    /\ UNCHANGED markdown
    /\ ProvFrame

\* builder.to_markdown()
ToMarkdown ==
    /\ pc = "building"
    /\ markdown' = to_markdown(builder)
    /\ pc' = "emitted"
    /\ UNCHANGED <<builder, log>>
    /\ ProvFrame

\* Fields: plain, with a pipe, and with a line break.
PlainEntries ==
    {ProvenanceEntry(<<"d">>, <<"1">>, <<"s">>, None),
     ProvenanceEntry(<<"e">>, <<"2">>, <<"s">>, <<"n">>),
     ProvenanceEntry(<<"a", "|", "b">>, <<"3">>, <<"s">>, <<"|">>)}

BrokenEntries == {ProvenanceEntry(<<"f">>, <<"4">>, <<"s">>, <<"x", "\n", "y">>)}

\* A fresh ProvenanceBuilder().
InitProvenance ==
    /\ builder = <<>>
    /\ log = <<>>
    /\ markdown = <<>>
    /\ pc = "building"
    /\ md = BaseMd
    /\ disk = ScriptsOk
    /\ result = <<>>
    /\ read = <<>>
    /\ calls = 0
    /\ fs = AllFilesOk
    /\ loaded = NotLoaded
    /\ arg = <<>>
    /\ out = <<>>

NextProvenance ==
    \/ \E e \in PlainEntries \cup BrokenEntries :
          Add(e.dataset, e.row_range, e.source, e.notes)
    \/ \E more \in SeqsUpTo({e \in PlainEntries : e.notes # None}, 2) :
          Extend(more)
    \/ Clear
    \/ ToMarkdown

SpecProvenance == InitProvenance /\ [][NextProvenance]_vars

\* The entries the calls of a log added after its last clear, in call order.
RECURSIVE AddedSinceClear(_)
AddedSinceClear(called) ==
    IF called = <<>> THEN <<>>
    ELSE IF called[Len(called)].op = "clear" THEN <<>>
    ELSE AddedSinceClear(SubSeq(called, 1, Len(called) - 1))
             \o called[Len(called)].entries

\* The lines of a text: what its line breaks separate.
RECURSIVE LinesOfText(_, _)
LinesOfText(text, line) ==
    IF text = <<>> THEN <<line>>
    ELSE IF Head(text) = "\n" THEN <<line>> \o LinesOfText(Tail(text), <<>>)
    ELSE LinesOfText(Tail(text), Append(line, Head(text)))

\* The table is the header row, the separator row and one row for each of
\* the given entries, in their order.
IsTableOf(lines, held) ==
    /\ Len(lines) = 2 + Len(held)
    /\ lines[1] = TableHead[1]
    /\ lines[2] = TableHead[2]
    /\ \A i \in 1..Len(held) : lines[2 + i] = TableRow(held[i])

\* The builder holds the entries added since the last clear, in call order.
EntriesAreTheAdded == builder = AddedSinceClear(log)

\* C17: after any sequence of add, extend and clear calls, entries holds the
\* entries added since the most recent clear, in call order, and to_markdown
\* returns the header row, the separator row and one table row for each entry
\* in that order: 2 + number of entries lines in all.
C17_EntriesAndTable ==
    /\ EntriesAreTheAdded
    /\ pc = "emitted" => IsTableOf(LinesOfText(markdown, <<>>), builder)

\* No field of the entries held has a line break.
NoLineBreakHeld ==
    \A i \in 1..Len(builder) :
        /\ "\n" \notin Range(builder[i].dataset) \cup Range(builder[i].row_range)
                         \cup Range(builder[i].source)
        /\ builder[i].notes # None => "\n" \notin Range(builder[i].notes)

\* What to_markdown does keep: the table has its 2 + number of entries
\* lines when no field of an entry has a line break.
TableOfEntriesWithoutLineBreak ==
    (pc = "emitted" /\ NoLineBreakHeld)
        => IsTableOf(LinesOfText(markdown, <<>>), builder)


(***************************************************************************)
(* records.EventRecord.from_row and the window of an event                 *)
(***************************************************************************)
\* clean_string of a CSV cell whose characters matter: the cell without the
\* blanks around it, None for a cell that is absent or blank.
CleanCell(cell) ==
    IF cell.t = "null" \/ Strip(cell.items) = <<>> THEN JNull
    ELSE JGet(Strip(cell.items))

\* EventRecord.from_row on a row with these three cells and every other cell
\* empty: the record, or raised when parse_get refuses a cell.
from_row(event_id, get_open, get_close) ==
    [raised |-> \/ parse_get(CleanCell(get_open)).kind \notin {"ok", "none"}
                \/ parse_get(CleanCell(get_close)).kind \notin {"ok", "none"},
     event |->
        [get_open |-> CleanCell(get_open), get_close |-> CleanCell(get_close)]
        @@ Event(event_id,
                 IF parse_get(CleanCell(get_open)).kind # "ok" THEN NoNum
                 ELSE Num(Seconds(parse_get(CleanCell(get_open)).s,
                                  parse_get(CleanCell(get_open)).milli)),
                 IF parse_get(CleanCell(get_close)).kind # "ok" THEN NoNum
                 ELSE Num(Seconds(parse_get(CleanCell(get_close)).s,
                                  parse_get(CleanCell(get_close)).milli)),
                 <<>>, None, "", JDict(<<>>))]

MaxRows == 2

\* An absent cell, a blank cell, and GET strings of one to two seconds, two
\* of them for the same time.
WindowCells ==
    {JNull, JGet(<<" ">>),
     JGet(<<"0", "0", "0", ":", "0", "0", ":", "0", "1">>),
     JGet(<<"0", ":", "0", ":", "1", ".", "5">>),
     JGet(<<"0", ":", "0", ":", "2">>),
     JGet(<<" ", "0", "0", "0", ":", "0", "0", ":", "0", "2", " ">>),
     JGet(<<"x">>)}

\* The events from_row builds from rows of events.csv, one id for each row.
WindowInputs ==
    {[BaseMd EXCEPT !.events =
          [i \in 1..Len(rows) |->
              from_row(<<"E1", "E2", "E3">>[i], rows[i][1], rows[i][2]).event]] :
        rows \in SeqsUpTo({row \in WindowCells \X WindowCells :
                              ~from_row("E1", row[1], row[2]).raised}, MaxRows)}

InitWindows == \E m \in WindowInputs : InitValidate(m, ScriptsOk)

SpecWindows == InitWindows /\ [][Validate]_vars

\* Both bounds of the event are present and its close time is less than its
\* open time.
ClosesBeforeItOpens(event) ==
    /\ event.get_open # JNull
    /\ event.get_close # JNull
    /\ SecLt(Seconds(parse_get(event.get_close).s, parse_get(event.get_close).milli),
             Seconds(parse_get(event.get_open).s, parse_get(event.get_open).milli))

\* C18: a call that returns reports 'Event window closes before it opens'
\* for an event, once, exactly when both get_open and get_close are present
\* and the close time is strictly less than the open time; an event with
\* equal times, or with a bound missing, yields no such error.
C18_WindowErrorIffClosesEarlier ==
    Returned
       => \A k \in EventPlaces :
             Reported("Event window closes before it opens",
                      [event_id |-> md.events[k].id])
                = IF ClosesBeforeItOpens(md.events[k]) THEN 1 ELSE 0

\* One event that closes half a second before it opens is reported, next to
\* one that closes when it opens and is not.
C18_Witness ==
    /\ Returned
    /\ Len(md.events) = 2
    /\ md.events[1].get_open = JGet(<<"0", ":", "0", ":", "1", ".", "5">>)
    /\ md.events[1].get_close = JGet(<<"0", "0", "0", ":", "0", "0", ":", "0", "1">>)
    /\ md.events[2].get_open = JGet(<<"0", ":", "0", ":", "2">>)
    /\ md.events[2].get_close = JGet(<<"0", "0", "0", ":", "0", "0", ":", "0", "2">>)
    /\ ReportedAny("Event window closes before it opens") = 1

====
